---------------------------- MODULE Spec2Model ----------------------------
(***************************************************************************)
(* Job orchestrator of youtube-clipper: clip jobs (routes/clipRoutes.js,   *)
(* services/clipService.js, utils/file.js, utils/time.js, state.js) and    *)
(* live recordings (services/recordService.js).                            *)
(*                                                                         *)
(* Node runs every handler to its next await on one event loop, so each    *)
(* action below is one such run: a route up to its await, a process event  *)
(* handler, a timer callback.  The external worker (yt-dlp), the remux     *)
(* tool (ffmpeg), the metadata resolver and the clients are the            *)
(* environment: their moves are the nondeterministic inputs of the         *)
(* actions.                                                                *)
(*                                                                         *)
(* Strings the code inspects character by character (paths, file names,    *)
(* the hashed text) are sequences of one-character strings.                *)
(***************************************************************************)
EXTENDS Integers, Sequences, FiniteSets, TLC

VARIABLES
  activeClips,      \* state.activeClips : clipId -> entry (a partial map)
  procs,            \* every yt-dlp process downloadClip spawned, by spawn order
  disk,             \* files of TEMP_DIR : path -> [size, ageMs, complete]
  logs,             \* output paths that have a <path>.yt-dlp.log beside them
  currentProgress,  \* state.currentProgress
  infoWait,         \* POST /api/clip requests suspended in await fetchVideoInfo
  lastResp,         \* the HTTP response the last step wrote (BaseResp: none)
  wsOut,            \* the events handed to wsBroadcast by the last step
  validation,       \* the last call of validateResumable: the file and the verdict
  probe,            \* per input, the results getClipIdAndPath has returned
  swept,            \* the files the last cleanupStalePartials call deleted
  recordings,       \* state.recordings : the ids in the map
  recObj,           \* the rec objects (they outlive their map entry in closures)
  recFiles,         \* the recording files on disk : id -> set of extensions
  stops,            \* stopRecording calls suspended at an await
  stopRet,          \* the results of the stopRecording calls that returned or threw
  wsClients,        \* state.wsClients : the sockets in the Set, in insertion order
  sockets,          \* every socket that ever connected : state and messages received
  wsCall            \* the wsBroadcast calls made and how the last one ended

clipVars == <<activeClips, procs, disk, logs, currentProgress, infoWait, lastResp>>
pureVars == <<validation, probe, swept>>
recVars  == <<recordings, recObj, recFiles, stops, stopRet>>
wsVars   == <<wsClients, sockets, wsCall>>
vars == <<activeClips, procs, disk, logs, currentProgress, infoWait, lastResp,
          wsOut, validation, probe, swept, recordings, recObj, recFiles, stops, stopRet,
          wsClients, sockets, wsCall>>

----------------------------------------------------------------------------
(* Bounds of the model.                                                    *)

MaxSpawns == 2      \* clip workers spawned in one run of Spec
MaxPending == 1     \* start requests suspended in fetchVideoInfo at once

None == "none"
EmptyMap == [x \in {} |-> x]
NoProc == 0         \* clip.proc = null

----------------------------------------------------------------------------
(* Characters and strings.                                                 *)

Alphabet ==
  <<"0","1","2","3","4","5","6","7","8","9",
    "a","b","c","d","e","i","l","m","o","p","r","s","t","u","y",
    "A","P","Y", ".", "/", "_", "-", "|", ":">>

LowerAlnum == {"0","1","2","3","4","5","6","7","8","9",
               "a","b","c","d","e","i","l","m","o","p","r","s","t","u","y"}
UpperAlpha == {"A","P","Y"}

ToLower(ch) ==
  CASE ch = "A" -> "a"
    [] ch = "P" -> "p"
    [] ch = "Y" -> "y"
    [] OTHER -> ch

(* s.replace(/[^a-z0-9]/gi, '_').toLowerCase() *)
Sanitize(s) ==
  [i \in 1..Len(s) |->
     IF s[i] \in LowerAlnum \cup UpperAlpha THEN ToLower(s[i]) ELSE "_"]

(* String.prototype.includes *)
Includes(s, sub) ==
  \E i \in 0..(Len(s) - Len(sub)) :
     \A j \in 1..Len(sub) : s[i + j] = sub[j]

(* String.prototype.endsWith *)
EndsWith(s, suf) ==
  /\ Len(suf) <= Len(s)
  /\ \A j \in 1..Len(suf) : s[Len(s) - Len(suf) + j] = suf[j]

DigitChar(d) == Alphabet[d + 1]

RECURSIVE NatStr(_)
NatStr(n) ==
  IF n < 10 THEN <<DigitChar(n)>>
  ELSE NatStr(n \div 10) \o <<DigitChar(n % 10)>>

(* `${n}` of an integer *)
NumStr(n) == IF n < 0 THEN <<"-">> \o NatStr(-n) ELSE NatStr(n)

HexDigit(d) == <<"0","1","2","3","4","5","6","7","8","9","a","b","c","d","e","f">>[d + 1]

CharCodes ==
  [ch \in {Alphabet[i] : i \in 1..Len(Alphabet)} |->
     CHOOSE i \in 1..Len(Alphabet) : Alphabet[i] = ch]

CharCode(ch) == CharCodes[ch]

RECURSIVE HexText(_)
HexText(s) ==
  IF s = <<>> THEN <<>>
  ELSE <<HexDigit(CharCode(Head(s)) \div 16), HexDigit(CharCode(Head(s)) % 16)>>
       \o HexText(Tail(s))

(* crypto.createHash('sha256').update(text).digest('hex').slice(0, 12): a    *)
(* string of hex digits that is a function of the text alone.  The digest   *)
(* is taken to be collision-free: the stand-in is the hex encoding of the   *)
(* text, which is injective and, like the digest, holds hex digits only.    *)
Sha256Hex(text) == HexText(text)

StrBest  == <<"b","e","s","t">>
StrAudio == <<"a","u","d","i","o">>
StrM4a   == <<"m","4","a">>
StrMp4   == <<"m","p","4">>
StrClip  == <<"c","l","i","p">>
DotPart  == <<".","p","a","r","t">>
TEMP_DIR == <<"t","m","p">>

(* path.join(dir, name) *)
PathJoin(dir, name) == dir \o <<"/">> \o name

(* path.basename of a file of TEMP_DIR *)
Basename(path) == SubSeq(path, Len(TEMP_DIR) + 2, Len(path))

----------------------------------------------------------------------------
(* utils/time.js                                                           *)

(* timeToSeconds: a number is returned as is; a string "HH:MM:SS", "MM:SS"  *)
(* or "SS" is given here already split at ':' into its numeric parts.       *)
timeToSeconds(t) ==
  IF t.kind = "number" THEN t.value
  ELSE IF Len(t.parts) = 3 THEN t.parts[1] * 3600 + t.parts[2] * 60 + t.parts[3]
  ELSE IF Len(t.parts) = 2 THEN t.parts[1] * 60 + t.parts[2]
  ELSE IF Len(t.parts) >= 1 THEN t.parts[1]
  ELSE 0

Num(n) == [kind |-> "number", value |-> n, parts |-> <<>>]
TimeStr(parts) == [kind |-> "string", value |-> 0, parts |-> parts]

(* parseFFmpegTime: the text before the first '.', split at ':' *)
parseFFmpegTime(parts) ==
  IF Len(parts) = 3 THEN parts[1] * 3600 + parts[2] * 60 + parts[3]
  ELSE IF Len(parts) = 2 THEN parts[1] * 60 + parts[2]
  ELSE IF Len(parts) >= 1 THEN parts[1]
  ELSE 0

----------------------------------------------------------------------------
(* utils/file.js                                                           *)

(* A variant that stamps the name with the number of processes spawned so  *)
(* far, the way clipFromRecording stamps its output with Date.now().       *)
getClipIdAndPath_Stamped(url, startSeconds, endSeconds, quality) ==
  LET hash == Sha256Hex(url \o <<"|">> \o NumStr(startSeconds) \o <<"|">>
                        \o NumStr(endSeconds) \o <<"|">> \o quality
                        \o <<"|">> \o NumStr(Len(procs)))
      titleSafe == Sanitize(IF url = <<>> THEN StrClip ELSE url)
      ext == IF quality = StrAudio THEN StrM4a ELSE StrMp4
      filename == titleSafe \o <<"_","c","l","i","p","_">> \o hash \o <<".">> \o ext
  IN [clipId |-> hash, outputPath |-> PathJoin(TEMP_DIR, filename),
      filename |-> filename, ext |-> ext]

(* getClipIdAndPath, computed as the code computes it *)
ClipIdAndPath(url, startSeconds, endSeconds, quality) ==
  LET hash == Sha256Hex(url \o <<"|">> \o NumStr(startSeconds) \o <<"|">>
                        \o NumStr(endSeconds) \o <<"|">> \o quality)
      titleSafe == Sanitize(IF url = <<>> THEN StrClip ELSE url)
      ext == IF quality = StrAudio THEN StrM4a ELSE StrMp4
      filename == titleSafe \o <<"_","c","l","i","p","_">> \o hash \o <<".">> \o ext
  IN [clipId |-> hash, outputPath |-> PathJoin(TEMP_DIR, filename),
      filename |-> filename, ext |-> ext]

(* The inputs of the model, and the results of ClipIdAndPath on them,      *)
(* computed once.                                                          *)
U1 == <<"Y",".","P","a","r","t">>
IdInputs == {U1, <<>>} \X {-5, 10, 40} \X {-5, 10, 40} \X {StrBest, StrAudio}
IdTable == [k \in IdInputs |-> ClipIdAndPath(k[1], k[2], k[3], k[4])]

getClipIdAndPath(url, startSeconds, endSeconds, quality) ==
  IF <<url, startSeconds, endSeconds, quality>> \in IdInputs
  THEN IdTable[<<url, startSeconds, endSeconds, quality>>]
  ELSE ClipIdAndPath(url, startSeconds, endSeconds, quality)

MinResumeBytes == 1024          \* stats.size < 1024
StaleMinutes == 1440            \* ageMinutes > 1440
MsPerMinute == 60000            \* (Date.now() - stats.mtimeMs) / 60000
BytesPerMB == 1048576           \* 1024 * 1024

(* ageMinutes > 1440 with ageMinutes = ageMs / 60000 *)
OlderThanStale(ageMs) == ageMs > StaleMinutes * MsPerMinute

(* sizeMB < 1 with sizeMB = size / (1024 * 1024) *)
UnderOneMB(size) == size < 1 * BytesPerMB

(* The too-small test with <= for <. *)
validateResumable_OffByOne(d, filePath) ==
  IF filePath \notin DOMAIN d
  THEN [resumable |-> FALSE, reason |-> "File does not exist", sizeBytes |-> 0]
  ELSE LET stats == d[filePath] IN
       IF stats.size <= MinResumeBytes
       THEN [resumable |-> FALSE, reason |-> "File too small (corrupted)",
             sizeBytes |-> stats.size]
       ELSE IF OlderThanStale(stats.ageMs) /\ UnderOneMB(stats.size)
       THEN [resumable |-> FALSE, reason |-> "Stale and undersized",
             sizeBytes |-> stats.size]
       ELSE [resumable |-> TRUE, reason |-> "Valid partial download",
             sizeBytes |-> stats.size]

(* validateResumable(filePath) on the disk d; sizeMB is kept as the size in *)
(* bytes it is computed from.                                               *)
validateResumable(d, filePath) ==
  IF filePath \notin DOMAIN d
  THEN [resumable |-> FALSE, reason |-> "File does not exist", sizeBytes |-> 0]
  ELSE LET stats == d[filePath] IN
       IF stats.size < MinResumeBytes
       THEN [resumable |-> FALSE, reason |-> "File too small (corrupted)",
             sizeBytes |-> stats.size]
       ELSE IF OlderThanStale(stats.ageMs) /\ UnderOneMB(stats.size)
       THEN [resumable |-> FALSE, reason |-> "Stale and undersized",
             sizeBytes |-> stats.size]
       ELSE [resumable |-> TRUE, reason |-> "Valid partial download",
             sizeBytes |-> stats.size]

(* fs.unlinkSync(path) *)
Unlink(d, path) == [q \in (DOMAIN d) \ {path} |-> d[q]]

DotYtdl == <<".","y","t","d","l">>

(* isPartialFile *)
isPartialFile(filePath) == EndsWith(filePath, DotPart) \/ EndsWith(filePath, DotYtdl)

(* A sweep that deletes every old partial file, whatever its size. *)
cleanupStalePartials_AnySize(d, maxAgeHours) ==
  {f \in DOMAIN d :
     /\ isPartialFile(Basename(f))
     /\ d[f].ageMs > maxAgeHours * 60 * 60 * 1000}

(* cleanupStalePartials(maxAgeHours): the files of TEMP_DIR it deletes *)
cleanupStalePartials(d, maxAgeHours) ==
  {f \in DOMAIN d :
     /\ isPartialFile(Basename(f))
     /\ d[f].ageMs > maxAgeHours * 60 * 60 * 1000
     /\ d[f].size < 1024 * 1024}

----------------------------------------------------------------------------
(* services/clipService.js: downloadClip and getClipStatus                 *)

FreshAgeMs == 2 * MsPerMinute
StaleAgeMs == (StaleMinutes + 60) * MsPerMinute
CompleteBytes == 4 * MinResumeBytes

Msg(s) == <<s>>

ProgressEvent(percent, message, job, phase) ==
  [type |-> "progress", percent |-> percent, message |-> message,
   job |-> job, phase |-> phase]

(* The worker's argument vector, as far as the orchestrator varies it: the *)
(* section and the flags; -o is the outputPath of the process record.     *)
WorkerArgs(url, startSeconds, endSeconds, outputPath) ==
  [sections |-> <<startSeconds, endSeconds>>,
   flags |-> {"--continue", "--no-overwrites", "--progress", "--newline"}]

(* downloadClip up to its return of the promise, on S = [activeClips,     *)
(* procs, disk].  via and awaited say which route called and whether it    *)
(* awaits the promise; killCb whether it passed onKillRequested.           *)
downloadClip(S, url, startSeconds, endSeconds, quality, background, via, awaited, killCb) ==
  LET id == getClipIdAndPath(url, startSeconds, endSeconds, quality)
      path == id.outputPath
      exists == path \in DOMAIN S.disk
      isStale == exists /\ OlderThanStale(S.disk[path].ageMs)
                        /\ id.clipId \notin DOMAIN S.activeClips
      removed == exists /\ isStale /\ S.disk[path].size < MinResumeBytes
      disk1 == IF removed THEN Unlink(S.disk, path) ELSE S.disk
      resumeInfo == IF exists /\ ~removed
                    THEN [found |-> TRUE, size |-> S.disk[path].size,
                          isPartial |-> EndsWith(path, DotPart), removed |-> FALSE]
                    ELSE [found |-> FALSE, size |-> 0, isPartial |-> FALSE,
                          removed |-> removed]
      pid == Len(S.procs) + 1
      proc == [clipId |-> id.clipId, outputPath |-> path, ext |-> id.ext,
               args |-> WorkerArgs(url, startSeconds, endSeconds, path),
               clipDuration |-> endSeconds - startSeconds,
               background |-> background, via |-> via,
               await |-> IF awaited THEN via ELSE "none",
               killFn |-> killCb, resumeInfo |-> resumeInfo,
               state |-> "running", code |-> 0, signalled |-> FALSE,
               lastPercent |-> 0, stallAge |-> 0, stallCheck |-> TRUE,
               ticks |-> 0, idle |-> 0, warned |-> 0, stderrBuf |-> <<>>,
               canResume |-> "",
               kill |-> [calls |-> 0, target |-> "none", threw |-> FALSE],
               clientGone |-> "no",
               sendPath |-> <<>>, promise |-> "pending",
               sent |-> [phase |-> None, percent |-> 0, resets |-> 0]]
      entry == [proc |-> pid, outputPath |-> path, percent |-> 0,
                message |-> Msg("Starting"), background |-> background,
                filename |-> id.filename, ready |-> "undefined"]
  IN [activeClips |-> (id.clipId :> entry) @@ S.activeClips,
      procs |-> Append(S.procs, proc),
      disk |-> disk1]

ClipState == [activeClips |-> activeClips, procs |-> procs, disk |-> disk]

(* state.activeClips.has(clipId) && !!state.activeClips.get(clipId).proc *)
IsActive(clipId) ==
  clipId \in DOMAIN activeClips /\ activeClips[clipId].proc # NoProc

BaseResp ==
  [route |-> None, code |-> 0, status |-> None, clipId |-> <<>>,
   startSeconds |-> 0, endSeconds |-> 0,
   percent |-> 0, message |-> <<>>, filename |-> <<>>,
   exists |-> FALSE, sizeBytes |-> 0, isPartial |-> FALSE, resumable |-> FALSE,
   resumeReason |-> None, inProgress |-> FALSE, hasLog |-> FALSE]

(* getClipStatus *)
getClipStatus(url, startSeconds, endSeconds, quality) ==
  LET id == getClipIdAndPath(url, startSeconds, endSeconds, quality)
      exists == id.outputPath \in DOMAIN disk
      val == IF exists THEN validateResumable(disk, id.outputPath)
             ELSE [resumable |-> FALSE, reason |-> "No file", sizeBytes |-> 0]
      has == id.clipId \in DOMAIN activeClips
  IN [BaseResp EXCEPT
        !.clipId = id.clipId,
        !.exists = exists,
        !.sizeBytes = IF exists THEN disk[id.outputPath].size ELSE 0,
        !.isPartial = Includes(id.outputPath, DotPart),
        !.resumable = val.resumable,
        !.resumeReason = val.reason,
        !.inProgress = IsActive(id.clipId),
        !.percent = IF has THEN activeClips[id.clipId].percent ELSE 0,
        !.message = IF has THEN activeClips[id.clipId].message ELSE <<>>,
        !.filename = id.filename,
        !.hasLog = id.outputPath \in logs]

----------------------------------------------------------------------------
(* routes/clipRoutes.js                                                    *)

(* ytdl.validateURL: an external predicate; U1 is the YouTube URL. *)
ValidateURL(url) == url = U1

Reply(route, code, status, ss, es) ==
  [BaseResp EXCEPT !.route = route, !.code = code, !.status = status,
                   !.startSeconds = ss, !.endSeconds = es]

(* POST /api/clip, up to await fetchVideoInfo *)
StartRequest(url, start, end, background, quality, pending) ==
  LET ss == timeToSeconds(start)
      es == timeToSeconds(end)
      bad == \/ ~ValidateURL(url)
             \/ ss >= es
             \/ ss < 0 \/ es < 0
      req == [url |-> url, startSeconds |-> ss, endSeconds |-> es,
              background |-> background, quality |-> quality]
  IN /\ ~bad => (Cardinality(infoWait) < pending /\ req \notin infoWait)
     /\ infoWait' = IF bad THEN infoWait ELSE infoWait \cup {req}
     /\ lastResp' = IF ~ValidateURL(url) THEN Reply("start", 400, "Invalid YouTube URL", ss, es)
                    ELSE IF ss >= es THEN Reply("start", 400, "Start time must be before end time", ss, es)
                    ELSE IF ss < 0 \/ es < 0 THEN Reply("start", 400, "Times must be positive", ss, es)
                    ELSE BaseResp
     /\ wsOut' = <<>>
     /\ UNCHANGED <<activeClips, procs, disk, logs, currentProgress>>
     /\ UNCHANGED <<pureVars, recVars, wsVars>>

(* POST /api/clip, from the return of fetchVideoInfo to the next await (or *)
(* the response).  info is what the metadata resolver answered.            *)
StartAfterInfo(req, info, cap) ==
  LET ss == req.startSeconds
      es == req.endSeconds
      rejected == ~info.ok \/ info.isLive \/ es > info.duration
      id == getClipIdAndPath(req.url, ss, es, req.quality)
      S1 == downloadClip(ClipState, req.url, ss, es, req.quality,
                         req.background, "start", ~req.background, TRUE)
  IN /\ req \in infoWait
     /\ infoWait' = infoWait \ {req}
     /\ ~rejected => Len(procs) < cap
     /\ IF rejected
        THEN /\ lastResp' = IF ~info.ok THEN Reply("start", 500, "Failed to process video clip", ss, es)
                            ELSE IF info.isLive THEN Reply("start", 400, "Video appears to be a live stream", ss, es)
                            ELSE Reply("start", 400, "End time exceeds video duration", ss, es)
             /\ wsOut' = <<>>
             /\ UNCHANGED <<activeClips, procs, disk, currentProgress>>
        ELSE /\ currentProgress' = [percent |-> 0, message |-> Msg("Starting")]
             /\ wsOut' = <<ProgressEvent(0, Msg("Starting"), 0, "start")>>
             /\ activeClips' = S1.activeClips
             /\ procs' = S1.procs
             /\ disk' = S1.disk
             /\ lastResp' = IF req.background
                            THEN [Reply("start", 200, "started", ss, es) EXCEPT
                                    !.clipId = id.clipId, !.filename = id.filename]
                            ELSE BaseResp
     /\ UNCHANGED logs
     /\ UNCHANGED <<pureVars, recVars, wsVars>>

(* POST /api/clip/resume, to its response or its await *)
ResumeRequest(url, start, end, quality, background, cap) ==
  LET ss == timeToSeconds(start)
      es == timeToSeconds(end)
      id == getClipIdAndPath(url, ss, es, quality)
      path == id.outputPath
      exists == path \in DOMAIN disk
      val == validateResumable(disk, path)
      disk1 == IF exists /\ ~val.resumable THEN Unlink(disk, path) ELSE disk
      action == IF path \in DOMAIN disk1 THEN "resuming" ELSE "starting"
      S1 == downloadClip([ClipState EXCEPT !.disk = disk1], url, ss, es, quality,
                         TRUE, "resume", FALSE, FALSE)
      S2 == downloadClip(S1, url, ss, es, quality, FALSE, "resume", TRUE, FALSE)
      answered == \/ url = <<>>
                  \/ IsActive(id.clipId)
                  \/ (exists /\ ~Includes(path, DotPart))
  IN /\ ~answered => Len(procs) + (IF background THEN 1 ELSE 2) <= cap
     /\ IF url = <<>>
        THEN /\ lastResp' = Reply("resume", 400, "Missing url/start/end", 0, 0)
             /\ UNCHANGED <<activeClips, procs, disk>>
        ELSE IF IsActive(id.clipId)
        THEN /\ lastResp' = [Reply("resume", 200, "in_progress", ss, es) EXCEPT
                               !.clipId = id.clipId,
                               !.percent = activeClips[id.clipId].percent,
                               !.message = activeClips[id.clipId].message]
             /\ UNCHANGED <<activeClips, procs, disk>>
        ELSE IF exists /\ ~Includes(path, DotPart)
        THEN /\ lastResp' = [Reply("resume", 200,
                                   IF background THEN "ready" ELSE "download", ss, es) EXCEPT
                               !.clipId = id.clipId, !.filename = id.filename,
                               !.sizeBytes = val.sizeBytes]
             /\ UNCHANGED <<activeClips, procs, disk>>
        ELSE /\ activeClips' = IF background THEN S1.activeClips ELSE S2.activeClips
             /\ procs' = IF background THEN S1.procs ELSE S2.procs
             /\ disk' = IF background THEN S1.disk ELSE S2.disk
             /\ lastResp' = IF background
                            THEN [Reply("resume", 200, "started", ss, es) EXCEPT
                                    !.clipId = id.clipId, !.filename = id.filename,
                                    !.message = Msg(action)]
                            ELSE BaseResp
     /\ wsOut' = <<>>
     /\ UNCHANGED <<logs, currentProgress, infoWait>>
     /\ UNCHANGED <<pureVars, recVars, wsVars>>

(* ALL /api/clip/status *)
StatusRequest(url, start, end, quality) ==
  LET ss == timeToSeconds(start)
      es == timeToSeconds(end)
  IN /\ lastResp' = IF url = <<>>
                    THEN Reply("status", 400, "Missing url/start/end", 0, 0)
                    ELSE [getClipStatus(url, ss, es, quality) EXCEPT
                            !.route = "status", !.code = 200, !.status = "status",
                            !.startSeconds = ss, !.endSeconds = es]
     /\ wsOut' = <<>>
     /\ UNCHANGED <<activeClips, procs, disk, logs, currentProgress, infoWait>>
     /\ UNCHANGED <<pureVars, recVars, wsVars>>

----------------------------------------------------------------------------
(* The worker process and its event handlers (clipService.js)              *)

ExitCodes == {0, 1}

DlLine(pct, speed) == [kind |-> "download", pct |-> pct, speed |-> speed, parts |-> <<>>]
TimeLine(parts) == [kind |-> "time", pct |-> 0, speed |-> "", parts |-> parts]
OtherLine == [kind |-> "other", pct |-> 0, speed |-> "", parts |-> <<>>]

(* A match that takes the first line of the chunk whatever it holds. *)
FirstMatch_AnyLine(chunk, kind) ==
  IF chunk # <<>> THEN 1 ELSE 0

(* s.match(re): the first line of the chunk the pattern matches, 0 if none *)
FirstMatch(chunk, kind) ==
  IF \E i \in 1..Len(chunk) : chunk[i].kind = kind
  THEN CHOOSE i \in 1..Len(chunk) :
         /\ chunk[i].kind = kind
         /\ \A j \in 1..(i - 1) : chunk[j].kind # kind
  ELSE 0

(* s.match(/([0-9.]+(?:K|M|G)iB\/s)/): the first throughput figure *)
FirstSpeed(chunk) ==
  IF \E i \in 1..Len(chunk) : chunk[i].speed # ""
  THEN LET k == CHOOSE i \in 1..Len(chunk) :
                  /\ chunk[i].speed # ""
                  /\ \A j \in 1..(i - 1) : chunk[j].speed = ""
       IN chunk[k].speed
  ELSE ""

(* The percent without the clamp. *)
TranscodePercent_NoClamp(secs, clipDuration) ==
  (secs * 100) \div clipDuration

(* (secs / clipDuration) * 100, clamped above; the model's inputs divide   *)
(* exactly.                                                                *)
TranscodePercent(secs, clipDuration) ==
  LET percent == (secs * 100) \div clipDuration
  IN IF percent > 100 THEN 100 ELSE percent

(* History of the progress events broadcast for one job: the phase and    *)
(* percent of the last one, and how often the percent went down from a    *)
(* fetch-phase event to a transcode-phase event (counted up to 2).        *)
Record(sent, phase, percent) ==
  [phase |-> phase, percent |-> percent,
   resets |-> IF sent.phase = "fetch" /\ phase = "transcode"
                 /\ percent < sent.percent /\ sent.resets < 2
              THEN sent.resets + 1 ELSE sent.resets]

(* An update that stores the percent and leaves the message as it was. *)
SetProgress_PercentOnly(clips, c, percent, message) ==
  IF c \in DOMAIN clips
  THEN [clips EXCEPT ![c].percent = percent]
  ELSE clips

(* const clip = state.activeClips.get(clipId);                             *)
(* if (clip) { clip.percent = ...; clip.message = ...; }                   *)
SetProgress(clips, c, percent, message) ==
  IF c \in DOMAIN clips
  THEN [clips EXCEPT ![c].percent = percent, ![c].message = message]
  ELSE clips

(* A progress line advances the job when it is the first of its phase or  *)
(* carries a higher percent than the last event of that phase.             *)
Advances(sent, phase, percent) ==
  \/ sent.phase # phase /\ percent > 0
  \/ sent.phase = phase /\ percent > sent.percent

(* proc.stderr.on('data').  stderrBuf keeps the tail of what the worker    *)
(* printed: here the last chunk.                                           *)
StderrData(pid, chunk) ==
  LET p == procs[pid]
      c == p.clipId
      dl == FirstMatch(chunk, "download")
      tm == FirstMatch(chunk, "time")
      hasDl == dl # 0
      hasTm == tm # 0 /\ p.clipDuration > 0
      pct == chunk[dl].pct
      speed == FirstSpeed(chunk)
      dlMsg == IF speed # "" THEN <<"Downloading", speed>> ELSE Msg("Downloading")
      percent == TranscodePercent(parseFFmpegTime(chunk[tm].parts), p.clipDuration)
      advanced == hasDl /\ pct > p.lastPercent
      clips1 == IF hasDl THEN SetProgress(activeClips, c, pct, dlMsg)
                ELSE activeClips
      clips2 == IF hasTm THEN SetProgress(clips1, c, percent, Msg("Processing"))
                ELSE clips1
      sent1 == IF hasDl THEN Record(p.sent, "fetch", pct) ELSE p.sent
      sent2 == IF hasTm THEN Record(sent1, "transcode", percent) ELSE sent1
      forward == \/ hasDl /\ Advances(p.sent, "fetch", pct)
                 \/ hasTm /\ Advances(sent1, "transcode", percent)
  IN /\ pid \in 1..Len(procs)
     /\ p.state \in {"running", "exited"}
     /\ procs' = [procs EXCEPT
                    ![pid].lastPercent = IF advanced THEN pct ELSE @,
                    ![pid].stallAge = IF advanced THEN 0 ELSE @,
                    ![pid].idle = IF forward THEN 0 ELSE @,
                    ![pid].stderrBuf = chunk,
                    ![pid].sent = sent2]
     /\ activeClips' = clips2
     /\ currentProgress' =
          IF hasTm THEN [percent |-> percent, message |-> Msg("Processing")]
          ELSE IF hasDl THEN [percent |-> pct, message |-> dlMsg]
          ELSE currentProgress
     /\ wsOut' = (IF hasDl THEN <<ProgressEvent(pct, dlMsg, pid, "fetch")>> ELSE <<>>)
              \o (IF hasTm THEN <<ProgressEvent(percent, Msg("Processing"), pid, "transcode")>>
                  ELSE <<>>)
     /\ lastResp' = BaseResp
     /\ UNCHANGED <<disk, logs, infoWait>>
     /\ UNCHANGED <<pureVars, recVars, wsVars>>

(* killChildProcess that signals the child alone, not its group. *)
killWorker_ChildOnly(p) ==
  IF p.state = "running"
  THEN [p EXCEPT !.signalled = TRUE,
                 !.kill = [calls |-> @.calls + 1, target |-> "child", threw |-> FALSE]]
  ELSE [p EXCEPT !.kill = [@ EXCEPT !.calls = @ + 1]]

(* killChildProcess(proc, reason) on a clip worker, which was spawned with *)
(* detached: true and so leads its own process group: process.kill(-pid,   *)
(* 'SIGINT') reaches the group while the worker lives; once it is gone the *)
(* call throws, is caught, and childProc.kill finds nothing to signal.     *)
killWorker(p) ==
  IF p.state = "running"
  THEN [p EXCEPT !.signalled = TRUE,
                 !.kill = [calls |-> @.calls + 1, target |-> "group", threw |-> FALSE]]
  ELSE [p EXCEPT !.kill = [@ EXCEPT !.calls = @ + 1]]

MaxKillCalls == 2

(* The caller invokes the function it was handed through onKillRequested. *)
KillRequested(pid) ==
  /\ pid \in 1..Len(procs)
  /\ procs[pid].killFn
  /\ procs[pid].kill.calls < MaxKillCalls
  /\ procs' = [procs EXCEPT ![pid] = killWorker(@)]
  /\ wsOut' = <<>>
  /\ lastResp' = BaseResp
  /\ UNCHANGED <<activeClips, disk, logs, currentProgress, infoWait>>
  /\ UNCHANGED <<pureVars, recVars, wsVars>>

(* The client of a foreground POST /api/clip goes away before the response *)
(* is complete.  res.on('close') and req.on('aborted') are registered      *)
(* after await downloadClip has returned; from then on they call           *)
(* killYtdlp, which calls killFn when it is set.  clientGone records in    *)
(* which state of the worker the client went away.                         *)
ClientDisconnect(pid) ==
  LET p == procs[pid]
      registered == p.await = "sending"
      p1 == [p EXCEPT !.clientGone = p.state]
  IN /\ pid \in 1..Len(procs)
     /\ p.via = "start" /\ ~p.background
     /\ p.await \in {"start", "sending"}
     /\ p.clientGone = "no"
     /\ procs' = [procs EXCEPT ![pid] = IF registered /\ p.killFn
                                        THEN killWorker(p1) ELSE p1]
     /\ wsOut' = <<>>
     /\ lastResp' = BaseResp
     /\ UNCHANGED <<activeClips, disk, logs, currentProgress, infoWait>>
     /\ UNCHANGED <<pureVars, recVars, wsVars>>

(* The stall detector of downloadClip: every 30 s the callback compares   *)
(* the time since lastProgressTime with STALL_TIMEOUT_MS.  Time is counted *)
(* in polls: stallAge is the number of callbacks since lastProgressTime    *)
(* was set, so the time since then is at most stallAge polls.              *)
STALL_TIMEOUT_MS == 120000
StallPollMs == 30000
MaxStallTicks == 6

(* The callback with a kill of the worker when it finds the job stalled. *)
StallTick_Kill(pid) ==
  LET p == procs[pid]
      timeSinceProgress == (p.stallAge + 1) * StallPollMs
      stalled == timeSinceProgress > STALL_TIMEOUT_MS /\ p.lastPercent < 100
  IN /\ pid \in 1..Len(procs)
     /\ p.stallCheck
     /\ p.ticks < MaxStallTicks
     /\ procs' = [procs EXCEPT
                    ![pid].ticks = @ + 1,
                    ![pid].stallAge = @ + 1,
                    ![pid].idle = @ + 1,
                    ![pid].warned = IF stalled THEN @ + 1 ELSE @,
                    ![pid].signalled = @ \/ stalled]
     /\ wsOut' = <<>>
     /\ lastResp' = BaseResp
     /\ UNCHANGED <<activeClips, disk, logs, currentProgress, infoWait>>
     /\ UNCHANGED <<pureVars, recVars, wsVars>>

(* The setInterval callback: console.warn when the time since the last     *)
(* progress exceeds the timeout and lastPercent < 100; nothing else.       *)
StallTick(pid) ==
  LET p == procs[pid]
      timeSinceProgress == (p.stallAge + 1) * StallPollMs
      stalled == timeSinceProgress > STALL_TIMEOUT_MS /\ p.lastPercent < 100
  IN /\ pid \in 1..Len(procs)
     /\ p.stallCheck
     /\ p.ticks < MaxStallTicks
     /\ procs' = [procs EXCEPT
                    ![pid].ticks = @ + 1,
                    ![pid].stallAge = @ + 1,
                    ![pid].idle = @ + 1,
                    ![pid].warned = IF stalled THEN @ + 1 ELSE @]
     /\ wsOut' = <<>>
     /\ lastResp' = BaseResp
     /\ UNCHANGED <<activeClips, disk, logs, currentProgress, infoWait>>
     /\ UNCHANGED <<pureVars, recVars, wsVars>>

(* The worker writes to its output path.  It runs with --no-overwrites: a  *)
(* finished file is never rewritten.                                       *)
WorkerWrite(pid, size) ==
  LET path == procs[pid].outputPath
  IN /\ pid \in 1..Len(procs)
     /\ procs[pid].state = "running"
     /\ path \in DOMAIN disk => ~disk[path].complete
     /\ disk' = (path :> [size |-> size, ageMs |-> FreshAgeMs, complete |-> FALSE])
                @@ disk
     /\ wsOut' = <<>>
     /\ lastResp' = BaseResp
     /\ UNCHANGED <<activeClips, procs, logs, currentProgress, infoWait>>
     /\ UNCHANGED <<pureVars, recVars, wsVars>>

(* The worker process exits.  With code 0 the artifact at its output path  *)
(* is finished; with another code the file is left as it is.               *)
WorkerExit(pid, code) ==
  LET path == procs[pid].outputPath
      done == path \in DOMAIN disk /\ disk[path].complete
  IN /\ pid \in 1..Len(procs)
     /\ procs[pid].state = "running"
     /\ procs' = [procs EXCEPT ![pid].state = "exited", ![pid].code = code]
     /\ disk' = IF code = 0 /\ ~done
                THEN (path :> [size |-> CompleteBytes, ageMs |-> FreshAgeMs,
                               complete |-> TRUE]) @@ disk
                ELSE disk
     /\ wsOut' = <<>>
     /\ lastResp' = BaseResp
     /\ UNCHANGED <<activeClips, logs, currentProgress, infoWait>>
     /\ UNCHANGED <<pureVars, recVars, wsVars>>

(* A close handler that removes the unfinished file of a failed worker. *)
CloseEvent_Cleanup(pid) ==
  LET p == procs[pid]
      c == p.clipId
  IN /\ pid \in 1..Len(procs)
     /\ p.state = "exited"
     /\ procs' = [procs EXCEPT
                    ![pid].state = "closed", ![pid].stallCheck = FALSE,
                    ![pid].promise = IF p.code = 0 THEN "resolved" ELSE "rejected",
                    ![pid].sent = IF p.code = 0 THEN Record(@, "done", 100) ELSE @]
     /\ activeClips' =
          IF c \in DOMAIN activeClips
          THEN [activeClips EXCEPT
                  ![c].proc = NoProc,
                  ![c].percent = 100,
                  ![c].message = IF p.code = 0 THEN Msg("Complete") ELSE Msg("Error"),
                  ![c].ready = IF p.code = 0 THEN "true" ELSE "false"]
          ELSE activeClips
     /\ IF p.code = 0
        THEN /\ currentProgress' = [percent |-> 100, message |-> Msg("Complete")]
             /\ wsOut' = <<ProgressEvent(100, Msg("Complete"), pid, "done")>>
             /\ logs' = logs
        ELSE /\ logs' = logs \cup {p.outputPath}
             /\ wsOut' = <<>>
             /\ UNCHANGED currentProgress
     /\ lastResp' = BaseResp
     /\ disk' = IF p.code # 0 THEN Unlink(disk, p.outputPath) ELSE disk
     /\ UNCHANGED infoWait
     /\ UNCHANGED <<pureVars, recVars, wsVars>>

(* A close handler that drops the registry entry of a failed worker. *)
CloseEvent_DropEntry(pid) ==
  LET p == procs[pid]
      c == p.clipId
  IN /\ pid \in 1..Len(procs)
     /\ p.state = "exited"
     /\ procs' = [procs EXCEPT
                    ![pid].state = "closed", ![pid].stallCheck = FALSE,
                    ![pid].promise = IF p.code = 0 THEN "resolved" ELSE "rejected",
                    ![pid].sent = IF p.code = 0 THEN Record(@, "done", 100) ELSE @]
     /\ activeClips' =
          IF c \in DOMAIN activeClips /\ p.code # 0
          THEN [k \in (DOMAIN activeClips) \ {c} |-> activeClips[k]]
          ELSE IF c \in DOMAIN activeClips
          THEN [activeClips EXCEPT
                  ![c].proc = NoProc,
                  ![c].percent = 100,
                  ![c].message = IF p.code = 0 THEN Msg("Complete") ELSE Msg("Error"),
                  ![c].ready = IF p.code = 0 THEN "true" ELSE "false"]
          ELSE activeClips
     /\ IF p.code = 0
        THEN /\ currentProgress' = [percent |-> 100, message |-> Msg("Complete")]
             /\ wsOut' = <<ProgressEvent(100, Msg("Complete"), pid, "done")>>
             /\ logs' = logs
        ELSE /\ logs' = logs \cup {p.outputPath}
             /\ wsOut' = <<>>
             /\ UNCHANGED currentProgress
     /\ lastResp' = BaseResp
     /\ UNCHANGED <<disk, infoWait>>
     /\ UNCHANGED <<pureVars, recVars, wsVars>>

(* The close handler without its clearInterval. *)
CloseEvent_KeepInterval(pid) ==
  LET p == procs[pid]
      c == p.clipId
  IN /\ pid \in 1..Len(procs)
     /\ p.state = "exited"
     /\ procs' = [procs EXCEPT
                    ![pid].state = "closed",
                    ![pid].promise = IF p.code = 0 THEN "resolved" ELSE "rejected",
                    ![pid].sent = IF p.code = 0 THEN Record(@, "done", 100) ELSE @]
     /\ activeClips' =
          IF c \in DOMAIN activeClips
          THEN [activeClips EXCEPT
                  ![c].proc = NoProc,
                  ![c].percent = 100,
                  ![c].message = IF p.code = 0 THEN Msg("Complete") ELSE Msg("Error"),
                  ![c].ready = IF p.code = 0 THEN "true" ELSE "false"]
          ELSE activeClips
     /\ IF p.code = 0
        THEN /\ currentProgress' = [percent |-> 100, message |-> Msg("Complete")]
             /\ wsOut' = <<ProgressEvent(100, Msg("Complete"), pid, "done")>>
             /\ logs' = logs
        ELSE /\ logs' = logs \cup {p.outputPath}
             /\ wsOut' = <<>>
             /\ UNCHANGED currentProgress
     /\ lastResp' = BaseResp
     /\ UNCHANGED <<disk, infoWait>>
     /\ UNCHANGED <<pureVars, recVars, wsVars>>

(* proc.on('close').  canResume is the 'Can resume' line of the log the    *)
(* handler writes on a non-zero exit.                                      *)
CloseEvent(pid) ==
  LET p == procs[pid]
      c == p.clipId
      partialSize == IF p.outputPath \in DOMAIN disk THEN disk[p.outputPath].size ELSE 0
  IN /\ pid \in 1..Len(procs)
     /\ p.state = "exited"
     /\ procs' = [procs EXCEPT
                    ![pid].state = "closed", ![pid].stallCheck = FALSE,
                    ![pid].promise = IF p.code = 0 THEN "resolved" ELSE "rejected",
                    ![pid].canResume = IF p.code = 0 THEN @
                                       ELSE IF partialSize > 0 THEN "yes" ELSE "no",
                    ![pid].sent = IF p.code = 0 THEN Record(@, "done", 100) ELSE @]
     /\ activeClips' =
          IF c \in DOMAIN activeClips
          THEN [activeClips EXCEPT
                  ![c].proc = NoProc,
                  ![c].percent = 100,
                  ![c].message = IF p.code = 0 THEN Msg("Complete") ELSE Msg("Error"),
                  ![c].ready = IF p.code = 0 THEN "true" ELSE "false"]
          ELSE activeClips
     /\ IF p.code = 0
        THEN /\ currentProgress' = [percent |-> 100, message |-> Msg("Complete")]
             /\ wsOut' = <<ProgressEvent(100, Msg("Complete"), pid, "done")>>
             /\ logs' = logs
        ELSE /\ logs' = logs \cup {p.outputPath}
             /\ wsOut' = <<>>
             /\ UNCHANGED currentProgress
     /\ lastResp' = BaseResp
     /\ UNCHANGED <<disk, infoWait>>
     /\ UNCHANGED <<pureVars, recVars, wsVars>>

(* The worker could not be launched.  The process object emits 'error'    *)
(* and, in the same turn, 'close' with the negative error code: the error  *)
(* handler (message 'Error', reject) and then the close handler run before *)
(* anything else does.                                                     *)
SpawnErrorCode == 0 - 2

LaunchFailure(pid) ==
  LET p == procs[pid]
      c == p.clipId
  IN /\ pid \in 1..Len(procs)
     /\ p.state = "running"
     /\ p.ticks = 0 /\ p.sent.phase = None
     /\ p.resumeInfo.found \/ p.outputPath \notin DOMAIN disk
     /\ procs' = [procs EXCEPT
                    ![pid].state = "closed", ![pid].stallCheck = FALSE,
                    ![pid].code = SpawnErrorCode,
                    ![pid].promise = "rejected"]
     /\ activeClips' =
          IF c \in DOMAIN activeClips
          THEN [activeClips EXCEPT
                  ![c].proc = NoProc,
                  ![c].percent = 100,
                  ![c].message = Msg("Error"),
                  ![c].ready = "false"]
          ELSE activeClips
     /\ logs' = logs \cup {p.outputPath}
     /\ wsOut' = <<>>
     /\ lastResp' = BaseResp
     /\ UNCHANGED <<disk, currentProgress, infoWait>>
     /\ UNCHANGED <<pureVars, recVars, wsVars>>

(* A file grows old: more than 24 hours pass since it was last written. *)
FileAges(path) ==
  /\ path \in DOMAIN disk
  /\ disk[path].ageMs # StaleAgeMs
  /\ \A pid \in 1..Len(procs) :
        procs[pid].outputPath = path => procs[pid].state # "running"
  /\ disk' = [disk EXCEPT ![path].ageMs = StaleAgeMs]
  /\ wsOut' = <<>>
  /\ lastResp' = BaseResp
  /\ UNCHANGED <<activeClips, procs, logs, currentProgress, infoWait>>
  /\ UNCHANGED <<pureVars, recVars, wsVars>>

----------------------------------------------------------------------------
(* The foreground routes after their await (clipRoutes.js)                 *)

ClipSep == <<"_","c","l","i","p","_">>
VALID_VIDEO_EXTENSIONS ==
  {<<".","m","p","4">>, <<".","m","k","v">>, <<".","m","o","v">>,
   <<".","a","v","i">>, <<".","m","4","a">>, <<".","m","p","3">>}

StartsWith(s, pre) ==
  /\ Len(pre) <= Len(s)
  /\ \A j \in 1..Len(pre) : s[j] = pre[j]

(* s.split(sep)[0] *)
SplitHead(s, sep) ==
  IF Includes(s, sep)
  THEN LET i == CHOOSE k \in 0..(Len(s) - Len(sep)) :
                  /\ \A j \in 1..Len(sep) : s[k + j] = sep[j]
                  /\ \A m \in 0..(k - 1) : \E j \in 1..Len(sep) : s[m + j] # sep[j]
       IN SubSeq(s, 1, i)
  ELSE s

(* findFallbackOutputFile: the paths it may return (none: it returns null). *)
(* files.find takes the first match in directory order, which is any of    *)
(* the matches; the second pass takes the newest candidate.                *)
findFallbackOutputFile(d, outputPath, ext) ==
  LET prefix == SplitHead(Basename(outputPath), ClipSep)
      first == {f \in DOMAIN d :
                  /\ StartsWith(Basename(f), prefix)
                  /\ EndsWith(f, <<".">> \o ext)
                  /\ ~Includes(Basename(f), DotPart)}
      cand == {f \in DOMAIN d :
                  /\ Includes(Basename(f), prefix)
                  /\ Includes(Basename(f), ClipSep)
                  /\ ~Includes(Basename(f), DotPart)
                  /\ \E e \in VALID_VIDEO_EXTENSIONS : EndsWith(f, e)}
  IN IF first # {} THEN first
     ELSE {f \in cand : \A g \in cand : d[f].ageMs <= d[g].ageMs}

(* POST /api/clip, foreground, after await downloadClip: waitForFile, the  *)
(* fallback search and res.download, or the catch block.                   *)
StartForegroundDone(pid, out) ==
  LET p == procs[pid]
      fallback == findFallbackOutputFile(disk, p.outputPath, p.ext)
      ss == p.args.sections[1]
      es == p.args.sections[2]
  IN /\ pid \in 1..Len(procs)
     /\ p.await = "start"
     /\ p.state = "closed"
     /\ out \in (IF p.code # 0 \/ p.outputPath \in DOMAIN disk \/ fallback = {}
                 THEN {p.outputPath} ELSE fallback)
     /\ IF p.code # 0
        THEN /\ lastResp' = Reply("start", 500, "Failed to process video clip", ss, es)
             /\ procs' = [procs EXCEPT ![pid].await = "done"]
        ELSE IF out \in DOMAIN disk
        THEN /\ lastResp' = [Reply("start", 200, "download", ss, es) EXCEPT
                               !.clipId = p.clipId, !.filename = Basename(out)]
             /\ procs' = [procs EXCEPT ![pid].await = "sending", ![pid].sendPath = out]
        ELSE /\ lastResp' = Reply("start", 500, "Output file not found", ss, es)
             /\ procs' = [procs EXCEPT ![pid].await = "done"]
     /\ wsOut' = <<>>
     /\ UNCHANGED <<activeClips, disk, logs, currentProgress, infoWait>>
     /\ UNCHANGED <<pureVars, recVars, wsVars>>

(* The callback of res.download in POST /api/clip: the file is removed     *)
(* after it was sent without error.                                        *)
DownloadCallback(pid, err) ==
  LET p == procs[pid]
  IN /\ pid \in 1..Len(procs)
     /\ p.await = "sending"
     /\ procs' = [procs EXCEPT ![pid].await = "done"]
     /\ disk' = IF ~err /\ p.sendPath \in DOMAIN disk
                THEN Unlink(disk, p.sendPath) ELSE disk
     /\ wsOut' = <<>>
     /\ lastResp' = BaseResp
     /\ UNCHANGED <<activeClips, logs, currentProgress, infoWait>>
     /\ UNCHANGED <<pureVars, recVars, wsVars>>

(* POST /api/clip/resume, foreground, after await downloadClip *)
ResumeForegroundDone(pid) ==
  LET p == procs[pid]
      ss == p.args.sections[1]
      es == p.args.sections[2]
  IN /\ pid \in 1..Len(procs)
     /\ p.await = "resume"
     /\ p.state = "closed"
     /\ procs' = [procs EXCEPT ![pid].await = "done"]
     /\ lastResp' =
          IF p.code # 0 THEN Reply("resume", 500, "yt-dlp exited", ss, es)
          ELSE IF p.outputPath \notin DOMAIN disk
          THEN Reply("resume", 500, "Output file not found after resume", ss, es)
          ELSE [Reply("resume", 200, "download", ss, es) EXCEPT
                  !.clipId = p.clipId, !.filename = Basename(p.outputPath)]
     /\ wsOut' = <<>>
     /\ UNCHANGED <<activeClips, disk, logs, currentProgress, infoWait>>
     /\ UNCHANGED <<pureVars, recVars, wsVars>>

----------------------------------------------------------------------------
(* Initial state: the server has just started; TEMP_DIR is empty.          *)

InitClip ==
  /\ activeClips = EmptyMap
  /\ procs = <<>>
  /\ disk = EmptyMap
  /\ logs = {}
  /\ currentProgress = [percent |-> 0, message |-> Msg("Idle")]
  /\ infoWait = {}
  /\ lastResp = BaseResp
  /\ wsOut = <<>>

ProbeInputs == {U1} \X {10} \X {40} \X {StrBest, StrAudio}

InitPure ==
  /\ validation = [called |-> FALSE]
  /\ probe = [k \in ProbeInputs |-> [outs |-> {}, ctxs |-> {}]]
  /\ swept = {}

InitRec ==
  /\ recordings = {}
  /\ recObj = EmptyMap
  /\ recFiles = EmptyMap
  /\ stops = {}
  /\ stopRet = {}

InitWs ==
  /\ wsClients = <<>>
  /\ sockets = EmptyMap
  /\ wsCall = [calls |-> 0, outcome |-> "none"]

Init == InitClip /\ InitPure /\ InitRec /\ InitWs

----------------------------------------------------------------------------
(* Spec: the job registry under start and resume requests, worker progress *)
(* and worker exit.                                                        *)

Urls == {U1}
GoodRange == <<Num(10), TimeStr(<<0, 40>>)>>
BadRange == <<Num(40), Num(10)>>
NegRange == <<Num(-5), Num(10)>>
Ranges == {GoodRange, BadRange}
InfoResults ==
  {[ok |-> TRUE, isLive |-> FALSE, duration |-> 60],
   [ok |-> TRUE, isLive |-> FALSE, duration |-> 30],
   [ok |-> TRUE, isLive |-> TRUE, duration |-> 0],
   [ok |-> FALSE, isLive |-> FALSE, duration |-> 0]}
Chunks == {<<DlLine(50, "")>>}

Next ==
  \/ \E url \in Urls, r \in Ranges, bg \in BOOLEAN :
       StartRequest(url, r[1], r[2], bg, StrBest, MaxPending)
  \/ \E req \in infoWait, info \in InfoResults : StartAfterInfo(req, info, MaxSpawns)
  \/ \E url \in Urls, r \in Ranges, bg \in BOOLEAN :
       ResumeRequest(url, r[1], r[2], StrBest, bg, MaxSpawns)
  \/ \E url \in Urls, r \in {GoodRange, NegRange} :
       StatusRequest(url, r[1], r[2], StrBest)
  \/ \E pid \in 1..Len(procs), chunk \in Chunks : StderrData(pid, chunk)
  \/ \E pid \in 1..Len(procs), code \in ExitCodes : WorkerExit(pid, code)
  \/ \E pid \in 1..Len(procs) : CloseEvent(pid)

Spec == Init /\ [][Next]_vars

(* C1: at every moment at most one worker process that was spawned and has *)
(* not yet exited exists per fingerprint (clipId).                         *)
C1_OneWorkerPerFingerprint ==
  \A a, b \in 1..Len(procs) :
     (/\ procs[a].clipId = procs[b].clipId
      /\ procs[a].state = "running"
      /\ procs[b].state = "running") => a = b

(* A step of POST /api/clip that gets past the metadata checks, and a step *)
(* of POST /api/clip/resume, for the request (url, range, best).           *)
StartStep(url, r, bg, cap) ==
  \E info \in InfoResults :
     /\ info.ok /\ ~info.isLive /\ timeToSeconds(r[2]) <= info.duration
     /\ StartAfterInfo([url |-> url, startSeconds |-> timeToSeconds(r[1]),
                        endSeconds |-> timeToSeconds(r[2]),
                        background |-> bg, quality |-> StrBest], info, cap)

ResumeStep(url, r, bg, cap) == ResumeRequest(url, r[1], r[2], StrBest, bg, cap)

IdOf(url, r) == getClipIdAndPath(url, timeToSeconds(r[1]), timeToSeconds(r[2]), StrBest)

Attached(c) ==
  /\ Len(procs') = Len(procs)
  /\ lastResp'.status = "in_progress"
  /\ lastResp'.percent = activeClips[c].percent
  /\ lastResp'.message = activeClips[c].message

(* C2: while a fingerprint has an active job (an entry with a non-null     *)
(* process handle), a start or resume call for it spawns no worker and its *)
(* response carries the percent and message stored in the entry.           *)
C2_SecondCallAttaches ==
  [][\A url \in Urls, r \in Ranges, bg \in BOOLEAN :
       (/\ IsActive(IdOf(url, r).clipId)
        /\ (StartStep(url, r, bg, MaxSpawns) \/ ResumeStep(url, r, bg, MaxSpawns)))
       => Attached(IdOf(url, r).clipId)]_vars

WorkersOf(c) == {pid \in 1..Len(procs) : procs[pid].clipId = c}

(* C3: a resume call that arrives while the job of an earlier resume call  *)
(* for the same (source, range, quality) is running, with no artifact on   *)
(* disk, leaves exactly one spawned worker in total and observes that      *)
(* job's progress, whatever the background flags of the two calls.         *)
C3_ConcurrentResumesSpawnOnce ==
  [][\A url \in Urls, r \in Ranges, bg \in BOOLEAN :
       LET c == IdOf(url, r).clipId IN
       (/\ WorkersOf(c) # {}
        /\ \A pid \in WorkersOf(c) :
              procs[pid].via = "resume" /\ procs[pid].state = "running"
        /\ IdOf(url, r).outputPath \notin DOMAIN disk
        /\ ResumeStep(url, r, bg, MaxSpawns))
       => (/\ Cardinality({pid \in 1..Len(procs') : procs'[pid].clipId = c}) = 1
           /\ Attached(c))]_vars

ValidRange(s, e) == s < e /\ s >= 0 /\ e >= 0

(* C8: for a range with start >= end or a negative bound no fingerprint is *)
(* computed, no registry entry is created and no worker is spawned: every  *)
(* worker, every entry and every response that carries a clip id belongs   *)
(* to a valid range.                                                       *)
C8_InvalidRangeRejectedFirst ==
  /\ \A pid \in 1..Len(procs) :
        ValidRange(procs[pid].args.sections[1], procs[pid].args.sections[2])
  /\ \A c \in DOMAIN activeClips :
        \E pid \in WorkersOf(c) :
           ValidRange(procs[pid].args.sections[1], procs[pid].args.sections[2])
  /\ lastResp.clipId # <<>> => ValidRange(lastResp.startSeconds, lastResp.endSeconds)

----------------------------------------------------------------------------
(* SpecArtifact: one fingerprint with its artifact on disk: the worker     *)
(* writes, finishes or fails, files grow old, foreground requests deliver. *)

MaxArtifactSpawns == 2
WriteSizes == {900, 2048}

NextArtifact ==
  \/ \E bg \in BOOLEAN :
       StartRequest(U1, GoodRange[1], GoodRange[2], bg, StrBest, MaxPending)
  \/ \E req \in infoWait :
       StartAfterInfo(req, [ok |-> TRUE, isLive |-> FALSE, duration |-> 60],
                      MaxArtifactSpawns)
  \/ \E bg \in BOOLEAN :
       ResumeRequest(U1, GoodRange[1], GoodRange[2], StrBest, bg, MaxArtifactSpawns)
  \/ \E pid \in 1..Len(procs), size \in WriteSizes : WorkerWrite(pid, size)
  \/ \E pid \in 1..Len(procs), code \in ExitCodes : WorkerExit(pid, code)
  \/ \E pid \in 1..Len(procs) : CloseEvent(pid)
  \/ \E path \in DOMAIN disk : FileAges(path)
  \/ \E pid \in 1..Len(procs) :
       \E out \in DOMAIN disk \cup {procs[pid].outputPath} : StartForegroundDone(pid, out)
  \/ \E pid \in 1..Len(procs), err \in BOOLEAN : DownloadCallback(pid, err)
  \/ \E pid \in 1..Len(procs) : ResumeForegroundDone(pid)

SpecArtifact == Init /\ [][NextArtifact]_vars

GoodId == IdOf(U1, GoodRange)

(* C4: with a complete artifact at the output path and no active job, a    *)
(* start or resume request reports ready (or delivers the file) at once    *)
(* and spawns no worker.                                                   *)
C4_CompleteArtifactShortCircuits ==
  [][\A bg \in BOOLEAN :
       (/\ GoodId.outputPath \in DOMAIN disk
        /\ disk[GoodId.outputPath].complete
        /\ ~IsActive(GoodId.clipId)
        /\ \/ StartStep(U1, GoodRange, bg, MaxArtifactSpawns)
           \/ ResumeStep(U1, GoodRange, bg, MaxArtifactSpawns))
       => (/\ Len(procs') = Len(procs)
           /\ lastResp'.status \in {"ready", "download"})]_vars

(* C5: a resume request with no active job and a partial artifact present: *)
(* below 1024 bytes the file is deleted and a fresh worker spawned; at or   *)
(* above it, unless stale and undersized, the file is left untouched and a *)
(* worker is spawned with the continue and no-overwrite flags.             *)
C5_ResumeValidatesPartial ==
  [][\A bg \in BOOLEAN :
       LET path == GoodId.outputPath IN
       (/\ path \in DOMAIN disk
        /\ ~disk[path].complete
        /\ ~IsActive(GoodId.clipId)
        /\ ResumeStep(U1, GoodRange, bg, MaxArtifactSpawns))
       => IF disk[path].size < MinResumeBytes
          THEN path \notin DOMAIN disk' /\ Len(procs') > Len(procs)
          ELSE IF ~(OlderThanStale(disk[path].ageMs) /\ UnderOneMB(disk[path].size))
          THEN /\ path \in DOMAIN disk' /\ disk'[path] = disk[path]
               /\ Len(procs') > Len(procs)
               /\ {"--continue", "--no-overwrites"} \subseteq procs'[Len(procs')].args.flags
          ELSE TRUE]_vars

----------------------------------------------------------------------------
(* SpecValidate: validateResumable over files of every size and age class. *)

FileSizes == {0, 1023, 1024, 1048575, 1048576}
FileAgesMs == {120000, 86400000, 86400001}

(* The environment leaves a file of the given size and age at the path.    *)
PlaceFile(path, size, ageMs) ==
  /\ disk' = (path :> [size |-> size, ageMs |-> ageMs, complete |-> FALSE]) @@ disk
  /\ UNCHANGED <<activeClips, procs, logs, currentProgress, infoWait, lastResp, wsOut>>
  /\ UNCHANGED <<pureVars, recVars, wsVars>>

RemoveFile(path) ==
  /\ path \in DOMAIN disk
  /\ disk' = Unlink(disk, path)
  /\ UNCHANGED <<activeClips, procs, logs, currentProgress, infoWait, lastResp, wsOut>>
  /\ UNCHANGED <<pureVars, recVars, wsVars>>

(* A call validateResumable(path) *)
Validate(path) ==
  /\ validation' = [called |-> TRUE,
                    exists |-> path \in DOMAIN disk,
                    size |-> IF path \in DOMAIN disk THEN disk[path].size ELSE 0,
                    ageMs |-> IF path \in DOMAIN disk THEN disk[path].ageMs ELSE 0,
                    result |-> validateResumable(disk, path)]
  /\ UNCHANGED <<clipVars, wsOut, probe, swept, recVars, wsVars>>

NextValidate ==
  \/ \E size \in FileSizes, ageMs \in FileAgesMs :
       PlaceFile(GoodId.outputPath, size, ageMs)
  \/ RemoveFile(GoodId.outputPath)
  \/ Validate(GoodId.outputPath)

SpecValidate == Init /\ [][NextValidate]_vars

(* C6: for an existing file of s bytes last modified a ms ago the verdict  *)
(* is too-small exactly when s < 1024; otherwise stale-and-undersized      *)
(* exactly when a is more than 24 hours and s is below 1 MB; otherwise     *)
(* resumable.  The too-small verdict takes precedence.                     *)
C6_ValidateResumableClasses ==
  (validation.called /\ validation.exists) =>
    LET s == validation.size
        a == validation.ageMs
        r == validation.result
        tooSmall == s < 1024
        staleSmall == a > 24 * 60 * 60 * 1000 /\ s < 1024 * 1024
    IN /\ (r.reason = "File too small (corrupted)") <=> tooSmall
       /\ (r.reason = "Stale and undersized") <=> (~tooSmall /\ staleSmall)
       /\ (r.reason = "Valid partial download") <=> (~tooSmall /\ ~staleSmall)
       /\ r.resumable <=> (~tooSmall /\ ~staleSmall)

(* A file that is both under 1024 bytes and stale was judged too small.    *)
C6_Witness ==
  /\ validation.called /\ validation.exists
  /\ validation.size = 1023 /\ validation.ageMs = 86400001
  /\ validation.result.reason = "File too small (corrupted)"
  /\ ~validation.result.resumable

----------------------------------------------------------------------------
(* SpecFingerprint: getClipIdAndPath called again and again while the      *)
(* registry, the disk and the request history change.                      *)

MaxProbeSpawns == 1

Context ==
  [spawned |-> Len(procs),
   files |-> DOMAIN disk,
   active |-> {c \in DOMAIN activeClips : IsActive(c)}]

(* A call getClipIdAndPath({url, startSeconds, endSeconds, quality}) *)
Probe(k) ==
  /\ probe' = [probe EXCEPT
                 ![k].outs = @ \cup {getClipIdAndPath(k[1], k[2], k[3], k[4])},
                 ![k].ctxs = @ \cup {Context}]
  /\ UNCHANGED <<clipVars, wsOut, validation, swept, recVars, wsVars>>

NextFingerprint ==
  \/ ResumeRequest(U1, GoodRange[1], GoodRange[2], StrBest, TRUE, MaxProbeSpawns)
  \/ \E pid \in 1..Len(procs), code \in ExitCodes : WorkerExit(pid, code)
  \/ \E pid \in 1..Len(procs) : CloseEvent(pid)
  \/ \E k \in ProbeInputs : Probe(k)

SpecFingerprint == Init /\ [][NextFingerprint]_vars

----------------------------------------------------------------------------
(* SpecProgress: one job and the progress lines its worker prints.         *)

MaxProgressJobs == 1

ProgressChunks ==
  {<<DlLine(20, "")>>, <<DlLine(50, "")>>,
   <<TimeLine(<<0, 0, 6>>)>>, <<TimeLine(<<0, 0, 15>>)>>,
   <<DlLine(50, ""), TimeLine(<<0, 0, 6>>)>>,
   <<OtherLine>>}

NextProgress ==
  \/ ResumeRequest(U1, GoodRange[1], GoodRange[2], StrBest, TRUE, MaxProgressJobs)
  \/ \E pid \in 1..Len(procs), chunk \in ProgressChunks : StderrData(pid, chunk)
  \/ \E pid \in 1..Len(procs), code \in ExitCodes : WorkerExit(pid, code)
  \/ \E pid \in 1..Len(procs) : CloseEvent(pid)

SpecProgress == Init /\ [][NextProgress]_vars

(* C25: after a chunk with a recognized progress line has been processed,  *)
(* the registry entry of the job holds the percent and the message of the  *)
(* progress event broadcast last for it, and state.currentProgress, which  *)
(* pollers and new subscribers are served, holds the same two values.      *)
C25_EntryAndSnapshotFollowEvent ==
  [][\A pid \in 1..Len(procs) :
       LET evs == SelectSeq(wsOut', LAMBDA e : e.job = pid
                                       /\ e.phase \in {"fetch", "transcode"})
           c == procs[pid].clipId
       IN evs # <<>> =>
            LET e == evs[Len(evs)] IN
            /\ c \in DOMAIN activeClips'
            /\ activeClips'[c].percent = e.percent
            /\ activeClips'[c].message = e.message
            /\ currentProgress' = [percent |-> e.percent, message |-> e.message]]_vars

(* A chunk with a fetch-phase and a transcode-phase line has just been     *)
(* processed: two events went out, and the entry and the snapshot hold the *)
(* values of the second.                                                   *)
C25_Witness ==
  /\ Len(wsOut) = 2
  /\ wsOut[1].phase = "fetch" /\ wsOut[2].phase = "transcode"
  /\ wsOut[1].percent # wsOut[2].percent
  /\ LET c == procs[wsOut[2].job].clipId IN
     /\ activeClips[c].percent = wsOut[2].percent
     /\ activeClips[c].message = Msg("Processing")
     /\ currentProgress = [percent |-> wsOut[2].percent, message |-> Msg("Processing")]

(* C39: after a worker has exited with a non-zero code, the registry      *)
(* entry of its job, and the status answer for it, hold the last percent   *)
(* the worker reported; they hold 100 only if that was the last report.    *)
C39_PercentKeptOnFailure ==
  \A pid \in 1..Len(procs) :
     (procs[pid].state = "closed" /\ procs[pid].code # 0) =>
        /\ activeClips[procs[pid].clipId].percent = procs[pid].sent.percent
        /\ getClipStatus(U1, timeToSeconds(GoodRange[1]), timeToSeconds(GoodRange[2]),
                         StrBest).percent = procs[pid].sent.percent

(* An event may carry a lower percent than the event before it only when   *)
(* it is the first step from the fetch phase down into the transcode phase.*)
InOrder(h, e) ==
  (h.phase # None /\ e.percent < h.percent)
    => (h.phase = "fetch" /\ e.phase = "transcode" /\ h.resets = 0)

(* C9: within one job's lifetime the percent broadcast is non-decreasing   *)
(* within the fetch phase and within the transcode phase; the only         *)
(* decrease is one reset at the boundary from fetch to transcode.          *)
C9_ProgressMonotoneWithinPhase ==
  [][\A pid \in 1..Len(procs) :
       LET evs == SelectSeq(wsOut', LAMBDA e : e.job = pid)
           h0 == procs[pid].sent
       IN /\ Len(evs) >= 1 => InOrder(h0, evs[1])
          /\ Len(evs) >= 2 =>
               InOrder(Record(h0, evs[1].phase, evs[1].percent), evs[2])]_vars

----------------------------------------------------------------------------
(* services/recordService.js                                               *)

MaxRecordings == 1
MaxStops == 2
MaxElapsed == 2

RecEvent(type, id, status) == [type |-> type, id |-> id, status |-> status]

(* How a process ended: with an exit code, or by a signal (code null).     *)
NoExit == [byCode |-> FALSE, code |-> 0, signal |-> FALSE]
ByCode(code) == [byCode |-> TRUE, code |-> code, signal |-> FALSE]
BySignal == [byCode |-> FALSE, code |-> 0, signal |-> TRUE]

(* rec.status = v, with the values the status has taken kept as history *)
SetStatus(rec, v) ==
  [rec EXCEPT !.status = v,
              !.history = IF v = rec.status THEN @ ELSE Append(@, v)]

(* Timers are numbered per recording in the order setTimeout made them:   *)
(* rec.cleanupTimer is the handle of the latest one (0: never set) and     *)
(* rec.timers holds the handles that are still pending.                    *)

(* The body of scheduleRecordingCleanup without its clearTimeout. *)
scheduleRecordingCleanup_NoClear(recs, objs, id) ==
  IF id \notin recs THEN objs
  ELSE [objs EXCEPT ![id].cleanupTimer = @ + 1,
                    ![id].timers = @ \cup {objs[id].cleanupTimer + 1}]

(* scheduleRecordingCleanup that clears the timer a recording holds and    *)
(* sets a new one only when it held none.                                  *)
scheduleRecordingCleanup_OnlyFirst(recs, objs, id) ==
  IF id \notin recs THEN objs
  ELSE IF objs[id].cleanupTimer # 0
  THEN [objs EXCEPT ![id].timers = @ \ {objs[id].cleanupTimer}]
  ELSE [objs EXCEPT ![id].cleanupTimer = @ + 1,
                    ![id].timers = @ \cup {objs[id].cleanupTimer + 1}]

(* scheduleRecordingCleanup(id): nothing when the map has no such id;      *)
(* otherwise clearTimeout of the handle the rec holds, and a new timer.    *)
scheduleRecordingCleanup(recs, objs, id) ==
  IF id \notin recs THEN objs
  ELSE [objs EXCEPT ![id].cleanupTimer = @ + 1,
                    ![id].timers = (@ \ {objs[id].cleanupTimer})
                                   \cup {objs[id].cleanupTimer + 1}]

(* The timer callback without the unlink of the file. *)
CleanupFire_KeepFile(id, t) ==
  /\ id \in DOMAIN recObj
  /\ t \in recObj[id].timers
  /\ recObj' = [recObj EXCEPT
                  ![id].timers = @ \ {t},
                  ![id].removals = @ + 1]
  /\ recordings' = recordings \ {id}
  /\ wsOut' = <<RecEvent("recording-removed", id, "")>>
  /\ UNCHANGED <<clipVars, pureVars, wsVars, recFiles, stops, stopRet>>

(* The cleanup timer t fires: the file at rec.outPath is unlinked, the id  *)
(* leaves the map, 'recording-removed' is broadcast.                       *)
CleanupFire(id, t) ==
  /\ id \in DOMAIN recObj
  /\ t \in recObj[id].timers
  /\ recObj' = [recObj EXCEPT
                  ![id].timers = @ \ {t},
                  ![id].removals = @ + 1,
                  ![id].unlinks = IF recObj[id].outExt \in recFiles[id]
                                  THEN @ + 1 ELSE @]
  /\ recFiles' = [recFiles EXCEPT ![id] = @ \ {recObj[id].outExt}]
  /\ recordings' = recordings \ {id}
  /\ wsOut' = <<RecEvent("recording-removed", id, "")>>
  /\ UNCHANGED <<clipVars, pureVars, wsVars, stops, stopRet>>

(* startRecording({url, quality, maxDuration, title}).  spawn returns a    *)
(* process object whether or not yt-dlp could be launched; a failed launch *)
(* is reported later by the 'error' event and a 'close' with a negative    *)
(* code.  The call returns {id, outPath, startedAt} in both cases.         *)
startRecording(maxDuration, launched) ==
  LET id == Cardinality(DOMAIN recObj) + 1
      rec == [status |-> "recording", outExt |-> "ts",
              proc |-> IF launched THEN "running" ELSE "failed",
              launched |-> launched, returned |-> "id",
              signalled |-> FALSE, exit |-> NoExit,
              maxDuration |-> maxDuration, elapsed |-> 0, sizeSeen |-> FALSE,
              updateInterval |-> TRUE,
              autoStop |-> [issued |-> FALSE, at |-> 0],
              cleanupTimer |-> 0, timers |-> {}, removals |-> 0, unlinks |-> 0,
              history |-> <<"recording">>]
  IN /\ Cardinality(DOMAIN recObj) < MaxRecordings
     /\ recObj' = (id :> rec) @@ recObj
     /\ recFiles' = (id :> {}) @@ recFiles
     /\ recordings' = recordings \cup {id}
     /\ wsOut' = <<>>
     /\ UNCHANGED <<clipVars, pureVars, wsVars, stops, stopRet>>

(* killChildProcess(proc, reason): SIGINT reaches a process that still runs *)
killChildProcess(rec) ==
  IF rec.proc = "running" THEN [rec EXCEPT !.signalled = TRUE] ELSE rec

(* The recorder writes its .ts file (--no-part: at the output path itself). *)
RecorderWrite(id) ==
  /\ id \in DOMAIN recObj
  /\ recObj[id].proc = "running"
  /\ "ts" \notin recFiles[id]
  /\ recFiles' = [recFiles EXCEPT ![id] = @ \cup {"ts"}]
  /\ wsOut' = <<>>
  /\ UNCHANGED <<clipVars, pureVars, wsVars, recordings, recObj, stops, stopRet>>

(* The callback with elapsed > maxDuration for elapsed >= maxDuration. *)
UpdateTick_Late(id) ==
  LET rec == recObj[id]
      elapsed == rec.elapsed + 1
      r1 == [rec EXCEPT !.elapsed = elapsed,
                        !.sizeSeen = @ \/ rec.outExt \in recFiles[id]]
      r2 == IF rec.maxDuration > 0 /\ elapsed > rec.maxDuration
            THEN killChildProcess(
                   [r1 EXCEPT !.updateInterval = FALSE,
                              !.autoStop = [issued |-> TRUE, at |-> elapsed]])
            ELSE r1
  IN /\ id \in DOMAIN recObj
     /\ rec.updateInterval
     /\ rec.elapsed < MaxElapsed
     /\ recObj' = [recObj EXCEPT ![id] = r2]
     /\ wsOut' = <<RecEvent("recording-progress", id, rec.status)>>
     /\ UNCHANGED <<clipVars, pureVars, wsVars, recordings, recFiles, stops, stopRet>>

(* The setInterval callback of startRecording, once a second; the clock is *)
(* read as one more whole second at every call.                            *)
UpdateTick(id) ==
  LET rec == recObj[id]
      elapsed == rec.elapsed + 1
      r1 == [rec EXCEPT !.elapsed = elapsed,
                        !.sizeSeen = @ \/ rec.outExt \in recFiles[id]]
      r2 == IF rec.maxDuration > 0 /\ elapsed >= rec.maxDuration
            THEN killChildProcess(
                   [r1 EXCEPT !.updateInterval = FALSE,
                              !.autoStop = [issued |-> TRUE, at |-> elapsed]])
            ELSE r1
  IN /\ id \in DOMAIN recObj
     /\ rec.updateInterval
     /\ rec.elapsed < MaxElapsed
     /\ recObj' = [recObj EXCEPT ![id] = r2]
     /\ wsOut' = <<RecEvent("recording-progress", id, rec.status)>>
     /\ UNCHANGED <<clipVars, pureVars, wsVars, recordings, recFiles, stops, stopRet>>

(* The recorder exits and proc.on('close', (code, signal) => ...) runs.    *)
RecOutcomes == {ByCode(0), ByCode(1), BySignal}
LaunchError == ByCode(0 - 2)          \* spawn ENOENT

(* The close handler without its clearInterval. *)
RecorderClose_KeepInterval(id, outcome) ==
  LET rec == recObj[id]
      r1 == [SetStatus(rec, IF outcome.byCode /\ outcome.code = 0
                            THEN "finished" ELSE "stopped")
               EXCEPT !.proc = "closed", !.exit = outcome]
      objs == [recObj EXCEPT ![id] = r1]
  IN /\ id \in DOMAIN recObj
     /\ \/ rec.proc = "running" /\ outcome \in RecOutcomes
        \/ rec.proc = "failed" /\ outcome = LaunchError
     /\ outcome.signal => rec.signalled
     /\ recObj' = scheduleRecordingCleanup(recordings, objs, id)
     /\ wsOut' = <<RecEvent("recording-status", id, r1.status)>>
     /\ UNCHANGED <<clipVars, pureVars, wsVars, recordings, recFiles, stops, stopRet>>

(* proc.on('close') of startRecording: status, exit code and signal,      *)
(* clearInterval, cleanup timer, broadcast                                 *)
RecorderClose(id, outcome) ==
  LET rec == recObj[id]
      r1 == [SetStatus(rec, IF outcome.byCode /\ outcome.code = 0
                            THEN "finished" ELSE "stopped")
               EXCEPT !.proc = "closed", !.exit = outcome,
                      !.updateInterval = FALSE]
      objs == [recObj EXCEPT ![id] = r1]
  IN /\ id \in DOMAIN recObj
     /\ \/ rec.proc = "running" /\ outcome \in RecOutcomes
        \/ rec.proc = "failed" /\ outcome = LaunchError
     /\ outcome.signal => rec.signalled
     /\ recObj' = scheduleRecordingCleanup(recordings, objs, id)
     /\ wsOut' = <<RecEvent("recording-status", id, r1.status)>>
     /\ UNCHANGED <<clipVars, pureVars, wsVars, recordings, recFiles, stops, stopRet>>

Calls == Cardinality(stops) + Cardinality(stopRet)

Thrown(call, id, error) ==
  [call |-> call, id |-> id, ok |-> FALSE, error |-> error,
   status |-> "", outExt |-> "", registry |-> "", changes |-> 0,
   remux |-> "none"]

(* What the registry holds for id when a call returns *)
RegistryStatus(recs, objs, id) ==
  IF id \in recs THEN objs[id].status ELSE "absent"

(* stopRecording that answers a call on an inactive recording with the    *)
(* recording as it is, without an error.                                   *)
StopCall_SilentNoOp(id) ==
  LET call == Calls + 1 IN
  /\ Calls < MaxStops
  /\ wsOut' = <<>>
  /\ IF id \notin recordings
     THEN /\ stopRet' = stopRet \cup {Thrown(call, id, "Recording not found")}
          /\ UNCHANGED <<recObj, stops>>
     ELSE IF recObj[id].status # "recording"
     THEN /\ stopRet' = stopRet \cup
               {[call |-> call, id |-> id, ok |-> TRUE, error |-> "",
                 status |-> recObj[id].status, outExt |-> recObj[id].outExt,
                 registry |-> recObj[id].status, changes |-> 0,
                 remux |-> "none"]}
          /\ UNCHANGED <<recObj, stops>>
     ELSE /\ recObj' = [recObj EXCEPT ![id] = killChildProcess(@)]
          /\ stops' = stops \cup {[call |-> call, id |-> id, pc |-> "wait",
                                   from |-> Len(recObj[id].history),
                                   input |-> ""]}
          /\ UNCHANGED stopRet
  /\ UNCHANGED <<clipVars, pureVars, wsVars, recordings, recFiles>>

(* stopRecording(id) up to its first await: the two guards, the kill *)
StopCall(id) ==
  LET call == Calls + 1 IN
  /\ Calls < MaxStops
  /\ wsOut' = <<>>
  /\ IF id \notin recordings
     THEN /\ stopRet' = stopRet \cup {Thrown(call, id, "Recording not found")}
          /\ UNCHANGED <<recObj, stops>>
     ELSE IF recObj[id].status # "recording"
     THEN /\ stopRet' = stopRet \cup {Thrown(call, id, "Recording not active")}
          /\ UNCHANGED <<recObj, stops>>
     ELSE /\ recObj' = [recObj EXCEPT ![id] = killChildProcess(@)]
          /\ stops' = stops \cup {[call |-> call, id |-> id, pc |-> "wait",
                                   from |-> Len(recObj[id].history),
                                   input |-> ""]}
          /\ UNCHANGED stopRet
  /\ UNCHANGED <<clipVars, pureVars, wsVars, recordings, recFiles>>

(* The tail of stopRecording: status, cleanup timer, broadcast, return *)
StopFinish(st, objs, files, remux) ==
  LET id == st.id
      r1 == SetStatus(objs[id], "finished")
      objs1 == scheduleRecordingCleanup(recordings, [objs EXCEPT ![id] = r1], id)
  IN /\ recObj' = objs1
     /\ recFiles' = files
     /\ stops' = stops \ {st}
     /\ stopRet' = stopRet \cup
          {[call |-> st.call, id |-> id, ok |-> TRUE, error |-> "",
            status |-> r1.status, outExt |-> r1.outExt,
            registry |-> RegistryStatus(recordings, objs1, id),
            changes |-> Len(r1.history) - st.from, remux |-> remux]}
     /\ wsOut' = <<RecEvent("recording-status", id, "finished")>>

(* The end of the wait without the 10 s timer: only the poll ends it. *)
StopWaitOver_NoTimeout(st, timedOut) ==
  LET id == st.id
      objs == [recObj EXCEPT ![id].updateInterval = FALSE]
  IN /\ st \in stops
     /\ st.pc = "wait"
     /\ recObj[id].status # "recording"
     /\ IF recObj[id].outExt \in recFiles[id]
        THEN /\ recObj' = objs
             /\ stops' = (stops \ {st}) \cup
                          {[st EXCEPT !.pc = "remux", !.input = recObj[id].outExt]}
             /\ wsOut' = <<>>
             /\ UNCHANGED <<recFiles, stopRet>>
        ELSE StopFinish(st, objs, recFiles, "none")
     /\ UNCHANGED <<clipVars, pureVars, wsVars, recordings>>

(* The wait ends: the 200 ms poll saw the status leave 'recording', or the *)
(* 10 s timer fired.  Then clearInterval, and the remux if the file exists.*)
StopWaitOver(st, timedOut) ==
  LET id == st.id
      objs == [recObj EXCEPT ![id].updateInterval = FALSE]
  IN /\ st \in stops
     /\ st.pc = "wait"
     /\ timedOut \/ recObj[id].status # "recording"
     /\ IF recObj[id].outExt \in recFiles[id]
        THEN /\ recObj' = objs
             /\ stops' = (stops \ {st}) \cup
                          {[st EXCEPT !.pc = "remux", !.input = recObj[id].outExt]}
             /\ wsOut' = <<>>
             /\ UNCHANGED <<recFiles, stopRet>>
        ELSE StopFinish(st, objs, recFiles, "none")
     /\ UNCHANGED <<clipVars, pureVars, wsVars, recordings>>

(* ffmpeg(rec.outPath)...save(finalPath) ends or fails.  finalPath is the  *)
(* .mp4 name; ffmpeg cannot end well when its input is that same file.  On *)
(* 'end' the file rec.outPath names at that moment is unlinked (a failing  *)
(* unlink is ignored) and rec.outPath is set to finalPath; a failure is    *)
(* logged and the call goes on.                                            *)
StopRemuxOver(st, ok) ==
  LET id == st.id
      made == [recFiles EXCEPT ![id] = @ \cup {"mp4"}]
  IN /\ st \in stops
     /\ st.pc = "remux"
     /\ ok => st.input # "mp4"
     /\ IF ok
        THEN StopFinish(st, [recObj EXCEPT ![id].outExt = "mp4"],
                        [made EXCEPT ![id] = @ \ {recObj[id].outExt}], "ended")
        ELSE StopFinish(st, recObj, recFiles, "failed")
     /\ UNCHANGED <<clipVars, pureVars, wsVars, recordings>>

MaxDurations == {0, 2}

NextRec ==
  \/ \E maxDuration \in MaxDurations, launched \in BOOLEAN :
       startRecording(maxDuration, launched)
  \/ \E id \in DOMAIN recObj : RecorderWrite(id)
  \/ \E id \in DOMAIN recObj : UpdateTick(id)
  \/ \E id \in DOMAIN recObj, outcome \in RecOutcomes \cup {LaunchError} :
       RecorderClose(id, outcome)
  \/ \E id \in 1..MaxRecordings : StopCall(id)
  \/ \E st \in stops, timedOut \in BOOLEAN : StopWaitOver(st, timedOut)
  \/ \E st \in stops, ok \in BOOLEAN : StopRemuxOver(st, ok)
  \/ \E id \in DOMAIN recObj : \E t \in recObj[id].timers : CleanupFire(id, t)

SpecRec == Init /\ [][NextRec]_vars

(* C10: a stopRecording call that succeeds leaves the status 'stopped',    *)
(* in the value it returns and in the registry entry, and between its      *)
(* start and its return the status has changed exactly once.               *)
C10_StopLeavesStopped ==
  \A r \in stopRet :
     r.ok => /\ r.status = "stopped"
             /\ r.registry = "stopped"
             /\ r.changes = 1

(* C12: the status of a recording leaves 'recording' once and never takes  *)
(* another value afterwards: it takes at most two values in its life,      *)
(* 'recording' and one terminal value.                                     *)
C12_StatusTerminalOnce ==
  \A id \in DOMAIN recObj : Len(recObj[id].history) <= 2

----------------------------------------------------------------------------
(* SpecRecOne: the life of one recording, from an empty registry.          *)

NextRecOne ==
  \/ \E maxDuration \in MaxDurations, launched \in BOOLEAN :
       recObj = EmptyMap /\ startRecording(maxDuration, launched)
  \/ \E id \in DOMAIN recObj : RecorderWrite(id)
  \/ \E id \in DOMAIN recObj : UpdateTick(id)
  \/ \E id \in DOMAIN recObj, outcome \in RecOutcomes \cup {LaunchError} :
       RecorderClose(id, outcome)
  \/ \E id \in 1..MaxRecordings : StopCall(id)
  \/ \E st \in stops, timedOut \in BOOLEAN : StopWaitOver(st, timedOut)
  \/ \E st \in stops, ok \in BOOLEAN : StopRemuxOver(st, ok)
  \/ \E id \in DOMAIN recObj : \E t \in recObj[id].timers : CleanupFire(id, t)

SpecRecOne == Init /\ [][NextRecOne]_vars

(* C11: stopRecording on a recording that is finished or stopped, or on an *)
(* id the registry does not hold, throws and changes nothing: no kill, no  *)
(* remux, no event, status and cleanup timer as they were.                 *)
C11_StopOnInactiveThrows ==
  [][\A id \in 1..MaxRecordings :
       (/\ StopCall(id)
        /\ \/ id \notin recordings
           \/ recObj[id].status \in {"finished", "stopped"})
       => (/\ UNCHANGED <<recordings, recObj, recFiles, stops>>
           /\ wsOut' = <<>>
           /\ \E r \in stopRet' :
                 /\ r \notin stopRet /\ stopRet' = stopRet \cup {r}
                 /\ ~r.ok /\ r.error # "")]_vars

(* Both errors were thrown: for a recording that had ended and whose       *)
(* cleanup timer was pending, and for an id not in the registry.           *)
C11_Witness ==
  /\ \E r \in stopRet :
        /\ ~r.ok /\ r.error = "Recording not active"
        /\ r.id \in DOMAIN recObj /\ recObj[r.id].timers # {}
  /\ \E r \in stopRet : ~r.ok /\ r.error = "Recording not found"

(* C13: with maxDuration = M > 0 the kill is issued at the first tick at   *)
(* which the elapsed whole seconds reach M, not before and not a tick      *)
(* later; with maxDuration = 0 it is never issued.                         *)
C13_AutoStopAtMaxDuration ==
  \A id \in DOMAIN recObj :
     LET r == recObj[id] IN
     /\ r.autoStop.issued =>
          (r.maxDuration > 0 /\ r.autoStop.at >= r.maxDuration
                             /\ r.autoStop.at - 1 < r.maxDuration)
     /\ r.maxDuration = 0 => ~r.autoStop.issued
     /\ (r.updateInterval /\ r.maxDuration > 0) => r.elapsed < r.maxDuration

(* A recording with maxDuration 2 was killed by its tick at 2 seconds.     *)
C13_Witness ==
  \E id \in DOMAIN recObj :
     /\ recObj[id].maxDuration = 2
     /\ recObj[id].autoStop = [issued |-> TRUE, at |-> 2]
     /\ recObj[id].signalled
     /\ ~recObj[id].updateInterval

(* C19: a recording has at most one cleanup timer pending at any time, and *)
(* over any sequence of close and stop events its file is deleted, its id  *)
(* removed from the registry and 'recording-removed' broadcast at most     *)
(* once.                                                                   *)
C19_OneCleanupPerRecording ==
  \A id \in DOMAIN recObj :
     /\ Cardinality(recObj[id].timers) <= 1
     /\ recObj[id].removals <= 1
     /\ recObj[id].unlinks <= 1

(* The cleanup was armed by the close handler, armed again by the end of   *)
(* stopRecording, and has then fired and deleted the file.                 *)
C19_Witness ==
  \E id \in DOMAIN recObj :
     /\ recObj[id].cleanupTimer >= 2
     /\ recObj[id].removals = 1
     /\ recObj[id].unlinks = 1
     /\ recObj[id].timers = {}
     /\ id \notin recordings

(* C17: when the recorder could not be launched, startRecording returns an *)
(* error, not an id, and the recording is not left in status 'recording'.  *)
C17_LaunchFailureIsError ==
  \A id \in DOMAIN recObj :
     ~recObj[id].launched =>
        (recObj[id].returned = "error" /\ recObj[id].status # "recording")

(* C16: status(fingerprint).inProgress is true exactly when a worker of    *)
(* that fingerprint has been spawned and its exit has not been handled     *)
(* yet.                                                                    *)
C16_InProgressIffWorkerAlive ==
  \A url \in Urls, r \in Ranges :
     getClipStatus(url, timeToSeconds(r[1]), timeToSeconds(r[2]), StrBest).inProgress
       <=> (\E pid \in WorkersOf(IdOf(url, r).clipId) : procs[pid].state # "closed")

(* C30: a cleanup timer is pending only for a recording whose status is   *)
(* terminal, never for one that is 'recording'; and when a timer fires,    *)
(* the file at the recording's output path does not exist afterwards, the  *)
(* registry no longer holds the id, and one 'recording-removed' event with *)
(* that id, and nothing else, is broadcast.                                *)
C30_CleanupOnlyWhenTerminal ==
  [][\A id \in DOMAIN recObj :
       /\ recObj[id].timers # {} => recObj[id].status \in {"finished", "stopped"}
       /\ recObj'[id].timers # {} => recObj'[id].status \in {"finished", "stopped"}
       /\ \A t \in recObj[id].timers :
            CleanupFire(id, t) =>
              /\ recObj'[id].outExt \notin recFiles'[id]
              /\ id \notin recordings'
              /\ wsOut' = <<RecEvent("recording-removed", id, "")>>]_vars

(* The timer of a recording that had written its file has fired: the file  *)
(* is gone, the id is gone and the event has just been broadcast.          *)
C30_Witness ==
  \E id \in DOMAIN recObj :
     /\ recObj[id].sizeSeen
     /\ recObj[id].unlinks = 1
     /\ recFiles[id] = {}
     /\ id \notin recordings
     /\ wsOut = <<RecEvent("recording-removed", id, "")>>

(* C35: whenever the status of a recording is 'finished' or 'stopped', or  *)
(* the recording has been removed from the registry, its recorder process  *)
(* has exited.                                                             *)
C35_TerminalMeansExited ==
  \A id \in DOMAIN recObj :
     (recObj[id].status \in {"finished", "stopped"} \/ id \notin recordings)
       => recObj[id].proc # "running"

(* C36: of the stopRecording calls made for one recording, at most one     *)
(* gets past the guards, signals the recorder and returns a result; every  *)
(* other one, also one that arrives while the first is still waiting for   *)
(* the close of the recorder, is rejected with an error.                   *)
C36_OverlappingStopsOneWins ==
  \A id \in DOMAIN recObj :
     Cardinality({st \in stops : st.id = id})
       + Cardinality({r \in stopRet : r.id = id /\ r.ok}) <= 1

(* C37: once 'recording-removed' has been broadcast for an id, no          *)
(* 'recording-status' or 'recording-progress' event with that id is        *)
(* broadcast, and the id does not come back into the registry.             *)
C37_NoEventAfterRemoved ==
  [][\A id \in DOMAIN recObj :
       recObj[id].removals > 0 =>
          /\ id \notin recordings'
          /\ \A i \in 1..Len(wsOut') :
                wsOut'[i].id = id =>
                   wsOut'[i].type \notin {"recording-status", "recording-progress"}]_vars

(* C38: every 'recording-progress' event carries the status 'recording':  *)
(* the sampling timer of a recording is cancelled once its status has left *)
(* 'recording', so no such event is broadcast for a recording in a         *)
(* terminal status.                                                        *)
C38_ProgressOnlyWhileRecording ==
  [][/\ \A i \in 1..Len(wsOut') :
          wsOut'[i].type = "recording-progress" =>
             /\ wsOut'[i].status = "recording"
             /\ recObj[wsOut'[i].id].status = "recording"
     /\ \A id \in DOMAIN recObj' :
          recObj'[id].status # "recording" => ~recObj'[id].updateInterval]_vars

(* A recording with no max-duration, whose timer had sampled it and could  *)
(* have gone on, has entered a terminal status and its timer is cancelled. *)
C38_Witness ==
  \E id \in DOMAIN recObj :
     /\ recObj[id].maxDuration = 0
     /\ recObj[id].elapsed > 0
     /\ recObj[id].elapsed < MaxElapsed
     /\ recObj[id].status \in {"finished", "stopped"}
     /\ ~recObj[id].updateInterval

(* C23: a recording whose worker was ended by the max-duration auto-stop   *)
(* (and by no stop call) has status 'finished' once the worker has closed. *)
C23_AutoStopEndsFinished ==
  \A id \in DOMAIN recObj :
     (/\ recObj[id].autoStop.issued
      /\ recObj[id].proc = "closed"
      /\ \A st \in stops : st.id # id
      /\ \A r \in stopRet : r.id # id)
     => recObj[id].status = "finished"

(* C24: one call of POST /api/clip/resume spawns at most one worker,       *)
(* whatever its background flag.                                           *)
C24_ResumeSpawnsAtMostOne ==
  [][\A url \in Urls, r \in Ranges, bg \in BOOLEAN :
       ResumeStep(url, r, bg, MaxSpawns) => Len(procs') <= Len(procs) + 1]_vars

(* C21: when the remux of a stopRecording call fails, the call still       *)
(* returns its result, rec.outPath is what it was and no file is deleted;  *)
(* when the remux ends well, the file it read is the one deleted, the      *)
(* remuxed .mp4 exists and rec.outPath names it.                           *)
C21_RemuxFailureKeepsArtifact ==
  [][\A st \in stops :
       LET id == st.id
           done == stopRet' \ stopRet
       IN /\ (st.pc = "remux" /\ StopRemuxOver(st, FALSE)) =>
               /\ recObj'[id].outExt = recObj[id].outExt
               /\ recFiles' = recFiles
               /\ \E r \in done :
                     /\ r.call = st.call /\ r.ok /\ r.remux = "failed"
                     /\ r.outExt = recObj[id].outExt
          /\ (st.pc = "remux" /\ StopRemuxOver(st, TRUE)) =>
               /\ recFiles'[id] = (recFiles[id] \ {st.input}) \cup {"mp4"}
               /\ recObj'[id].outExt = "mp4"
               /\ \E r \in done :
                     /\ r.call = st.call /\ r.ok /\ r.remux = "ended"
                     /\ r.outExt = "mp4"]_vars

----------------------------------------------------------------------------
(* SpecRecLive: the life of one recording when every cleanup timer that    *)
(* stays armed fires in the end.                                           *)

FireSome ==
  \E id \in DOMAIN recObj : \E t \in recObj[id].timers : CleanupFire(id, t)

SpecRecLive == Init /\ [][NextRecOne]_vars /\ WF_vars(FireSome)

(* C31: every recording whose status has become 'finished' or 'stopped' is *)
(* removed from the registry in the end, whatever close and stop events    *)
(* follow, given that armed timers fire.                                   *)
C31_TerminalEventuallyRemoved ==
  \A id \in 1..MaxRecordings :
     (id \in DOMAIN recObj /\ recObj[id].status \in {"finished", "stopped"})
       ~> (id \notin recordings)

(* A recording became terminal by the close of its worker, a stop call     *)
(* that was waiting armed the timer again, and the recording was removed.  *)
C31_Witness ==
  \E id \in DOMAIN recObj :
     /\ recObj[id].history = <<"recording", "stopped", "finished">>
     /\ recObj[id].cleanupTimer = 2
     /\ recObj[id].removals = 1
     /\ id \notin recordings

----------------------------------------------------------------------------
(* SpecStopLive: the life of one recording when the timers of a stop call  *)
(* fire and its ffmpeg run ends or fails; the recorder itself may go on    *)
(* for ever.                                                               *)

StopStep ==
  \E st \in stops, b \in BOOLEAN : StopWaitOver(st, b) \/ StopRemuxOver(st, b)

SpecStopLive == Init /\ [][NextRecOne]_vars /\ WF_vars(StopStep)

(* C32: every stopRecording call that got past its guards leaves its wait, *)
(* goes through the remux step and returns its result, also when the       *)
(* recorder never exits.                                                   *)
C32_StopWaitBounded ==
  \A call \in 1..MaxStops :
     (\E st \in stops : st.call = call)
       ~> (\E r \in stopRet : r.call = call /\ r.ok)

(* A stop call has returned while the recorder it signalled was still      *)
(* running.                                                                *)
C32_Witness ==
  \E r \in stopRet :
     /\ r.ok
     /\ r.id \in DOMAIN recObj
     /\ recObj[r.id].proc = "running"
     /\ recObj[r.id].signalled
     /\ recObj[r.id].exit = NoExit

----------------------------------------------------------------------------
(* SpecCancel: one start request, foreground or background, the function   *)
(* it is handed to cancel its worker, and the client going away.           *)

NextCancel ==
  \/ \E bg \in BOOLEAN :
       procs = <<>> /\ StartRequest(U1, GoodRange[1], GoodRange[2], bg, StrBest, MaxPending)
  \/ \E req \in infoWait :
       procs = <<>> /\ StartAfterInfo(req, [ok |-> TRUE, isLive |-> FALSE, duration |-> 60],
                                      MaxSpawns)
  \/ \E pid \in 1..Len(procs) : KillRequested(pid)
  \/ \E pid \in 1..Len(procs) : ClientDisconnect(pid)
  \/ \E pid \in 1..Len(procs), size \in WriteSizes : WorkerWrite(pid, size)
  \/ \E pid \in 1..Len(procs), code \in ExitCodes : WorkerExit(pid, code)
  \/ \E pid \in 1..Len(procs) : CloseEvent(pid)
  \/ \E pid \in 1..Len(procs) :
       \E out \in DOMAIN disk \cup {procs[pid].outputPath} : StartForegroundDone(pid, out)
  \/ \E pid \in 1..Len(procs), err \in BOOLEAN : DownloadCallback(pid, err)

SpecCancel == Init /\ [][NextCancel]_vars

C40_DisconnectCancelsWorker ==
  \A pid \in 1..Len(procs) :
     procs[pid].clientGone = "running" => procs[pid].signalled

----------------------------------------------------------------------------
(* SpecStall: one job, the lines its worker prints, the polls of its stall *)
(* detector and the end of the worker.                                     *)

StallChunks ==
  {<<DlLine(50, "")>>, <<DlLine(100, "")>>,
   <<TimeLine(<<0, 0, 6>>)>>, <<TimeLine(<<0, 0, 15>>)>>, <<TimeLine(<<0, 0, 30>>)>>,
   <<OtherLine>>}

NextStall ==
  \/ procs = <<>> /\ ResumeRequest(U1, GoodRange[1], GoodRange[2], StrBest, TRUE, MaxSpawns)
  \/ \E pid \in 1..Len(procs), chunk \in StallChunks : StderrData(pid, chunk)
  \/ \E pid \in 1..Len(procs) : StallTick(pid)
  \/ \E pid \in 1..Len(procs), code \in ExitCodes : WorkerExit(pid, code)
  \/ \E pid \in 1..Len(procs) : CloseEvent(pid)
  \/ \E pid \in 1..Len(procs) : LaunchFailure(pid)

SpecStall == Init /\ [][NextStall]_vars

(* C26: a chunk that matches neither the fetch-phase nor the transcode-    *)
(* phase pattern leaves the stored percent and message, the progress       *)
(* snapshot and the state of the stall detector as they were, broadcasts   *)
(* nothing and raises no error.                                            *)
C26_UnrecognizedChunkIgnored ==
  [][\A pid \in 1..Len(procs) :
       StderrData(pid, <<OtherLine>>) =>
         /\ UNCHANGED <<activeClips, currentProgress>>
         /\ wsOut' = <<>>
         /\ procs'[pid].lastPercent = procs[pid].lastPercent
         /\ procs'[pid].stallAge = procs[pid].stallAge
         /\ procs'[pid].stallCheck = procs[pid].stallCheck
         /\ procs'[pid].state = procs[pid].state
         /\ procs'[pid].promise = procs[pid].promise]_vars

(* The last chunk of a job that had reported fetch-phase progress, and     *)
(* whose detector had polled since, was an unrecognized one: the entry     *)
(* still holds the percent of that progress.                               *)
C26_Witness ==
  \E pid \in 1..Len(procs) :
     /\ procs[pid].stderrBuf = <<OtherLine>>
     /\ procs[pid].stallAge > 0
     /\ procs[pid].sent.phase = "fetch"
     /\ procs[pid].lastPercent = procs[pid].sent.percent
     /\ procs[pid].lastPercent > 0
     /\ activeClips[procs[pid].clipId].percent = procs[pid].sent.percent
     /\ currentProgress.percent = procs[pid].sent.percent
     /\ wsOut = <<>>

C28_StallOnlyWithoutProgress ==
  [][\A pid \in 1..Len(procs) :
       procs'[pid].warned > procs[pid].warned =>
          procs'[pid].idle * StallPollMs > STALL_TIMEOUT_MS]_vars

(* C29: once the close handler of a job has run, after an exit with any    *)
(* code or after a failed launch, its stall detector is cancelled and no   *)
(* poll runs for that job.                                                 *)
C29_NoStallCheckAfterClose ==
  [][\A pid \in 1..Len(procs) :
       procs[pid].state = "closed" =>
          /\ ~procs[pid].stallCheck
          /\ procs'[pid].ticks = procs[pid].ticks
          /\ procs'[pid].warned = procs[pid].warned]_vars

(* A job whose detector had polled has closed while polls were still left  *)
(* to it, and its detector is cancelled.                                   *)
C29_Witness ==
  \E pid \in 1..Len(procs) :
     /\ procs[pid].state = "closed"
     /\ procs[pid].ticks > 0
     /\ procs[pid].ticks < MaxStallTicks
     /\ ~procs[pid].stallCheck

----------------------------------------------------------------------------
(* SpecTranscode: one job, of a range with a positive or a non-positive    *)
(* duration, and the transcode-phase lines of its worker.                  *)

ZeroRange == <<Num(10), Num(10)>>
TranscodeRanges == {GoodRange, BadRange, ZeroRange}

TranscodeChunks ==
  {<<TimeLine(<<0, 0, 0>>)>>, <<TimeLine(<<0, 0, 6>>)>>, <<TimeLine(<<0, 15>>)>>,
   <<TimeLine(<<0, 0, 30>>)>>, <<TimeLine(<<0, 0, 45>>)>>, <<TimeLine(<<0, 1, 0>>)>>,
   <<DlLine(100, ""), TimeLine(<<0, 0, 45>>)>>}

NextTranscode ==
  \/ \E r \in TranscodeRanges :
       procs = <<>> /\ ResumeRequest(U1, r[1], r[2], StrBest, TRUE, MaxSpawns)
  \/ \E pid \in 1..Len(procs), chunk \in TranscodeChunks : StderrData(pid, chunk)
  \/ \E pid \in 1..Len(procs), code \in ExitCodes : WorkerExit(pid, code)
  \/ \E pid \in 1..Len(procs) : CloseEvent(pid)

SpecTranscode == Init /\ [][NextTranscode]_vars

(* C27: for a job of positive duration a time marker gives one transcode-  *)
(* phase event whose percent is the elapsed seconds times 100 over the     *)
(* duration, replaced by 100 when that is more, and so within 0..100; for  *)
(* a job whose duration is not positive it gives no event.                 *)
C27_TranscodePercentClamped ==
  [][\A pid \in 1..Len(procs), chunk \in TranscodeChunks :
       StderrData(pid, chunk) =>
         LET secs == parseFFmpegTime(chunk[Len(chunk)].parts)
             d == procs[pid].clipDuration
             evs == SelectSeq(wsOut', LAMBDA e : e.phase = "transcode")
         IN IF d > 0
            THEN /\ Len(evs) = 1
                 /\ evs[1].percent >= 0 /\ evs[1].percent <= 100
                 /\ secs <= d => evs[1].percent * d = secs * 100
                 /\ secs > d => evs[1].percent = 100
            ELSE evs = <<>>]_vars

(* A time marker beyond the end of the range has been processed and the    *)
(* event carried 100.                                                      *)
C27_Witness ==
  /\ Len(wsOut) = 1
  /\ wsOut[1].phase = "transcode"
  /\ wsOut[1].percent = 100
  /\ procs[wsOut[1].job].stderrBuf = <<TimeLine(<<0, 1, 0>>)>>
  /\ procs[wsOut[1].job].clipDuration = 30

----------------------------------------------------------------------------
(* SpecExit: start requests, foreground and background, whose worker       *)
(* writes, exits with or without an error, and is delivered; and status    *)
(* requests for the same fingerprint.                                      *)

MaxExitSpawns == 1

NextExit ==
  \/ \E bg \in BOOLEAN :
       StartRequest(U1, GoodRange[1], GoodRange[2], bg, StrBest, MaxPending)
  \/ \E req \in infoWait :
       StartAfterInfo(req, [ok |-> TRUE, isLive |-> FALSE, duration |-> 60],
                      MaxExitSpawns)
  \/ \E pid \in 1..Len(procs), size \in WriteSizes : WorkerWrite(pid, size)
  \/ \E pid \in 1..Len(procs), code \in ExitCodes : WorkerExit(pid, code)
  \/ \E pid \in 1..Len(procs) : CloseEvent(pid)
  \/ \E pid \in 1..Len(procs) :
       \E out \in DOMAIN disk \cup {procs[pid].outputPath} : StartForegroundDone(pid, out)
  \/ \E pid \in 1..Len(procs), err \in BOOLEAN : DownloadCallback(pid, err)
  \/ StatusRequest(U1, GoodRange[1], GoodRange[2], StrBest)

SpecExit == Init /\ [][NextExit]_vars

(* C34: the 'Can resume' line of the log written on a non-zero exit says   *)
(* 'yes' exactly when validateResumable judges the preserved file          *)
(* resumable at that moment.                                               *)
C34_CanResumeMatchesValidator ==
  [][\A pid \in 1..Len(procs) :
       (/\ procs[pid].state = "exited" /\ procs[pid].code # 0
        /\ procs'[pid].state = "closed")
       => LET path == procs[pid].outputPath IN
          (procs'[pid].canResume = "yes")
            <=> (path \in DOMAIN disk /\ validateResumable(disk, path).resumable)]_vars

(* C14: when a clip worker exits with a non-zero code, downloadClip        *)
(* rejects, the file at the output path is there afterwards iff it was     *)
(* there before (in the close handler and in the route's catch block), and *)
(* a log file is written beside it.                                        *)
C14_FailureKeepsArtifact ==
  [][\A pid \in 1..Len(procs) :
       LET path == procs[pid].outputPath IN
       /\ (CloseEvent(pid) /\ procs[pid].code # 0)
            => (/\ procs'[pid].promise = "rejected"
                /\ (path \in DOMAIN disk') <=> (path \in DOMAIN disk)
                /\ path \in DOMAIN disk => disk'[path] = disk[path]
                /\ path \in logs')
       /\ (StartForegroundDone(pid, path) /\ procs[pid].promise = "rejected")
            => (/\ lastResp'.code = 500
                /\ disk' = disk)]_vars

(* A foreground worker that had written part of its file failed; the       *)
(* request was answered 500 and the file and the log are there.            *)
C14_Witness ==
  \E pid \in 1..Len(procs) :
     /\ procs[pid].promise = "rejected"
     /\ procs[pid].await = "done"
     /\ procs[pid].outputPath \in DOMAIN disk
     /\ ~disk[procs[pid].outputPath].complete
     /\ procs[pid].outputPath \in logs
     /\ lastResp.code = 500

(* C18: when a background clip job fails, status for its fingerprint shows *)
(* inProgress false, message 'Error', hasLog true and a resumability       *)
(* verdict; and an error response goes only to a foreground request        *)
(* waiting for its own worker.                                             *)
C18_BackgroundFailureInStatus ==
  [][/\ \A pid \in 1..Len(procs) :
          (CloseEvent(pid) /\ procs[pid].code # 0 /\ procs[pid].background)
            => LET st == getClipStatus(U1, procs[pid].args.sections[1],
                                       procs[pid].args.sections[2], StrBest)'
               IN /\ st.clipId = procs[pid].clipId
                  /\ ~st.inProgress
                  /\ st.message = <<"Error">>
                  /\ st.hasLog
                  /\ st.resumeReason \in {"No file", "File too small (corrupted)",
                                          "Stale and undersized", "Valid partial download"}
                  /\ lastResp'.code # 500
     /\ lastResp'.code = 500 =>
          \E pid \in 1..Len(procs) :
             /\ ~procs[pid].background
             /\ procs[pid].await = "start" /\ procs'[pid].await = "done"
             /\ procs[pid].promise = "rejected" \/ procs[pid].outputPath \notin DOMAIN disk
    ]_vars

(* A background job has failed and its entry says so.                      *)
C18_Witness ==
  \E pid \in 1..Len(procs) :
     /\ procs[pid].background
     /\ procs[pid].promise = "rejected"
     /\ procs[pid].clipId \in DOMAIN activeClips
     /\ activeClips[procs[pid].clipId].message = <<"Error">>
     /\ activeClips[procs[pid].clipId].proc = NoProc
     /\ procs[pid].outputPath \in logs

----------------------------------------------------------------------------
(* SpecDelete: files of every size and age at the output path and at its   *)
(* .part name, and everything that deletes clip files on its own: the      *)
(* check of downloadClip before it spawns, the resume route, the sweep of  *)
(* stale partial files at startup and every six hours.                     *)

MaxDeleteSpawns == 1
SweepHours == 24
PartPath == GoodId.outputPath \o DotPart
SweptSizes == {1023, 1048575, 1048576}
SweptAgesMs == {120000, 86400001}

(* The timer callbacks of app.js: cleanupStalePartials(24) *)
SweepTimer ==
  LET del == cleanupStalePartials(disk, SweepHours) IN
  /\ disk' = [q \in (DOMAIN disk) \ del |-> disk[q]]
  /\ swept' = del
  /\ wsOut' = <<>>
  /\ lastResp' = BaseResp
  /\ UNCHANGED <<activeClips, procs, logs, currentProgress, infoWait>>
  /\ UNCHANGED <<validation, probe, recVars, wsVars>>

NextDelete ==
  \/ \E path \in {GoodId.outputPath, PartPath}, size \in SweptSizes, ageMs \in SweptAgesMs :
       PlaceFile(path, size, ageMs)
  \/ SweepTimer
  \/ StartRequest(U1, GoodRange[1], GoodRange[2], TRUE, StrBest, MaxPending)
  \/ \E req \in infoWait :
       StartAfterInfo(req, [ok |-> TRUE, isLive |-> FALSE, duration |-> 60],
                      MaxDeleteSpawns)
  \/ ResumeRequest(U1, GoodRange[1], GoodRange[2], StrBest, TRUE, MaxDeleteSpawns)

SpecDelete == Init /\ [][NextDelete]_vars

(* C15: whenever the pre-spawn check of downloadClip, the resume route or  *)
(* the sweep of stale partials removes a file, validateResumable judged    *)
(* that file not resumable at that moment.                                 *)
C15_DeletesOnlyRejected ==
  [][\A path \in DOMAIN disk :
       path \notin DOMAIN disk' => ~validateResumable(disk, path).resumable]_vars

(* The sweep has deleted a stale partial file and downloadClip has removed *)
(* a stale tiny file before spawning.                                      *)
C15_Witness ==
  /\ swept # {}
  /\ \E pid \in 1..Len(procs) : procs[pid].resumeInfo.removed

-----------------------------------------------------------------------------
(* utils/broadcast.js and websocket.js: the subscriber set and wsBroadcast *)

MaxSockets == 2
MaxBroadcasts == 2

(* readyState values of the ws library: OPEN is 1, CLOSED is 3 *)
OPEN == 1
CLOSED == OPEN + 2

SeqRange(q) == {q[i] : i \in 1..Len(q)}
SetDelete(q, x) == SelectSeq(q, LAMBDA y : y # x)

(* ws.send(msg) on one socket: throws when the transport is broken,        *)
(* otherwise the message is delivered                                      *)
send(socks, ws) ==
  IF socks[ws].broken
    THEN [threw |-> TRUE, socks |-> socks]
    ELSE [threw |-> FALSE,
          socks |-> [socks EXCEPT ![ws].received = @ + 1]]

(* a loop whose try/catch encloses the whole iteration: the first throwing *)
(* send ends the loop                                                      *)
RECURSIVE SendUntilThrow(_, _)
SendUntilThrow(clients, socks) ==
  IF clients = <<>> THEN socks
  ELSE LET ws == Head(clients) IN
       IF socks[ws].readyState = OPEN
         THEN LET r == send(socks, ws) IN
              IF r.threw THEN socks
              ELSE SendUntilThrow(Tail(clients), r.socks)
         ELSE SendUntilThrow(Tail(clients), socks)

wsBroadcast_TryAroundLoop(clients, socks) ==
  [socks |-> SendUntilThrow(clients, socks), outcome |-> "returned"]

(* for (const ws of state.wsClients) { if (ws.readyState === 1) {          *)
(*   try { ws.send(msg); } catch (e) {} } }                                *)
RECURSIVE SendEach(_, _)
SendEach(clients, socks) ==
  IF clients = <<>> THEN socks
  ELSE LET ws == Head(clients) IN
       IF socks[ws].readyState = OPEN
         THEN SendEach(Tail(clients), send(socks, ws).socks)
         ELSE SendEach(Tail(clients), socks)

wsBroadcast(clients, socks) ==
  [socks |-> SendEach(clients, socks), outcome |-> "returned"]

UnchangedButWs ==
  /\ wsOut' = <<>>
  /\ lastResp' = BaseResp
  /\ UNCHANGED <<activeClips, procs, disk, logs, currentProgress, infoWait>>
  /\ UNCHANGED <<pureVars, recVars>>

(* wss.on('connection'): add to the set, register the handlers, send the   *)
(* current progress                                                        *)
Connection ==
  /\ Cardinality(DOMAIN sockets) < MaxSockets
  /\ LET ws == Cardinality(DOMAIN sockets) + 1 IN
     /\ wsClients' = Append(wsClients, ws)
     /\ sockets' = [x \in DOMAIN sockets \cup {ws} |->
                      IF x = ws
                        THEN [readyState |-> OPEN, broken |-> FALSE, received |-> 1]
                        ELSE sockets[x]]
  /\ UNCHANGED wsCall
  /\ UnchangedButWs

(* the transport of an open socket fails: the next send on it throws *)
SocketBreaks(ws) ==
  /\ sockets[ws].readyState = OPEN
  /\ ~sockets[ws].broken
  /\ sockets' = [sockets EXCEPT ![ws].broken = TRUE]
  /\ UNCHANGED <<wsClients, wsCall>>
  /\ UnchangedButWs

(* the socket leaves the OPEN state; its 'close' event is still queued *)
SocketShuts(ws) ==
  /\ sockets[ws].readyState = OPEN
  /\ sockets' = [sockets EXCEPT ![ws].readyState = CLOSED]
  /\ UNCHANGED <<wsClients, wsCall>>
  /\ UnchangedButWs

(* ws.on('close', () => state.wsClients.delete(ws)) *)
OnClose(ws) ==
  /\ sockets[ws].readyState = CLOSED
  /\ ws \in SeqRange(wsClients)
  /\ wsClients' = SetDelete(wsClients, ws)
  /\ UNCHANGED <<sockets, wsCall>>
  /\ UnchangedButWs

(* ws.on('error', () => state.wsClients.delete(ws)) *)
OnError(ws) ==
  /\ sockets[ws].broken
  /\ ws \in SeqRange(wsClients)
  /\ wsClients' = SetDelete(wsClients, ws)
  /\ UNCHANGED <<sockets, wsCall>>
  /\ UnchangedButWs

(* one call of wsBroadcast(data) by any of its callers *)
Broadcast ==
  /\ wsCall.calls < MaxBroadcasts
  /\ LET r == wsBroadcast(wsClients, sockets) IN
     /\ sockets' = r.socks
     /\ wsCall' = [calls |-> wsCall.calls + 1, outcome |-> r.outcome]
  /\ UNCHANGED wsClients
  /\ UnchangedButWs

NextWs ==
  \/ Connection
  \/ \E ws \in DOMAIN sockets : SocketBreaks(ws)
  \/ \E ws \in DOMAIN sockets : SocketShuts(ws)
  \/ \E ws \in DOMAIN sockets : OnClose(ws)
  \/ \E ws \in DOMAIN sockets : OnError(ws)
  \/ Broadcast

SpecWs == Init /\ [][NextWs]_vars

(* C20: a wsBroadcast call returns normally and delivers the event to      *)
(* exactly the subscribers that are in the set, open and whose send does   *)
(* not throw: a non-open subscriber is skipped and a throwing send does    *)
(* not keep the event from the others. The close and error handlers remove *)
(* the subscriber from the set, and a removed subscriber receives nothing. *)
C20_BroadcastBestEffort ==
  [][/\ wsCall'.calls # wsCall.calls =>
          /\ wsCall'.outcome = "returned"
          /\ \A ws \in DOMAIN sockets :
               sockets'[ws].received =
                 IF /\ ws \in SeqRange(wsClients)
                    /\ sockets[ws].readyState = OPEN
                    /\ ~sockets[ws].broken
                   THEN sockets[ws].received + 1
                   ELSE sockets[ws].received
     /\ \A ws \in DOMAIN sockets :
          (OnClose(ws) \/ OnError(ws)) => ws \notin SeqRange(wsClients')
    ]_vars

(* A broadcast has reached an open subscriber that comes after a throwing  *)
(* one in the set, while the throwing one and a subscriber removed by its  *)
(* handler got nothing beyond the progress sent on connection.             *)
C20_Witness ==
  /\ wsCall.calls = MaxBroadcasts
  /\ \E i, j \in 1..Len(wsClients) :
       /\ i < j
       /\ sockets[wsClients[i]].broken
       /\ sockets[wsClients[i]].readyState = OPEN
       /\ sockets[wsClients[i]].received = 1
       /\ sockets[wsClients[j]].received = 1 + MaxBroadcasts

=============================================================================
